---------------------------- MODULE Spec2Model ----------------------------
(***************************************************************************)
(* A model of the PL/0 teaching compiler: lexer, parser, symbol table,     *)
(* three-address code generator, optimizer, target code generator and the  *)
(* stack virtual machine.                                                  *)
(*                                                                         *)
(* JavaScript values.  The virtual machine computes on JavaScript numbers. *)
(* Two non-integer values can appear: undefined (a read of an array cell   *)
(* that was never written) and NaN (arithmetic on undefined).  They are    *)
(* encoded as two integers far outside the range the bounded runs reach.   *)
(***************************************************************************)
EXTENDS Integers, Sequences, FiniteSets, TLC

VARIABLES
    instructions,   \* VirtualMachine.instructions
    stack,          \* VirtualMachine.stack: the cells that differ from the fill value
    stackLen,       \* VirtualMachine.stack.length
    filled,         \* the length the array had when it was last filled with 0
    p,              \* program counter
    b,              \* base pointer
    t,              \* top of stack pointer
    pc,             \* where run() is: "idle", "running", "awaiting", "halted", "error"
    output,         \* the messages handed to onOutput, in order
    error,          \* the message of the error run() threw, "" if none
    requests,       \* number of onRequestInput() calls made so far
    responses,      \* number of those that were settled (resolved or rejected)
    steps,          \* instructions fetched in the current run
    runs,           \* number of run() calls made on this machine
    cur,            \* the instruction being executed / executed last, and the state before its fetch
    prev,           \* the same for the instruction before it
    source,         \* App: the text in the editor ("" when no App is involved)
    feed,           \* App: the numbers the user will type, in order
    artifacts,      \* App: what the last compile() stored
    stage,          \* "vm": a machine built from an instruction list; App: "edit",
                    \* "compiled", "failed", "original" (running the generated code),
                    \* "optimized" (running the code generated from the optimized quadruples)
    firstRun,       \* the outcome of the run before the current one, once it is over: of the
                    \* earlier run() of a machine, or of the run of the generated code
    tacGen,         \* a TACGenerator: its code, tempCount and labelCount
    quadHeap        \* the quadruple objects an Optimizer is given, makes and returns

vmVars == <<instructions, stack, stackLen, filled, p, b, t, pc, output, error,
            requests, responses, steps, runs, cur, prev>>

appVars == <<source, feed, artifacts, stage, firstRun, tacGen, quadHeap>>

-----------------------------------------------------------------------------
(* JavaScript numbers *)

NaN == -2147483647
Undef == -2147483646

IsNum(v) == v # NaN /\ v # Undef

\* ToNumber(undefined) = NaN
ToNum(v) == IF v = Undef THEN NaN ELSE v

Abs(x) == IF x < 0 THEN -x ELSE x

JsAdd(x, y) == IF IsNum(x) /\ IsNum(y) THEN x + y ELSE NaN
JsSub(x, y) == IF IsNum(x) /\ IsNum(y) THEN x - y ELSE NaN
JsMul(x, y) == IF IsNum(x) /\ IsNum(y) THEN x * y ELSE NaN
JsNeg(x)    == IF IsNum(x) THEN -x ELSE NaN

\* Math.trunc(x / y) for integers x and y # 0: the quotient rounded towards 0
TruncDiv(x, y) == IF (x >= 0) = (y > 0) THEN Abs(x) \div Abs(y) ELSE -(Abs(x) \div Abs(y))

\* Math.floor(x / y) for integers x and y # 0
FloorDiv(x, y) == IF y > 0 THEN x \div y ELSE (-x) \div (-y)

\* Math.floor(x / y), y # 0 (x / 0 is never evaluated by the machine: it throws first)
JsFloorDiv(x, y) == IF IsNum(x) /\ IsNum(y) /\ y # 0 THEN FloorDiv(x, y) ELSE NaN

\* x % y: the remainder takes the sign of the dividend
JsRem(x, y) ==
    IF IsNum(x) /\ IsNum(y) /\ y # 0
    THEN (IF x < 0 THEN -(Abs(x) % Abs(y)) ELSE x % Abs(y))
    ELSE NaN

\* relational operators: any comparison with NaN / undefined is false
JsLt(x, y) == IsNum(x) /\ IsNum(y) /\ x < y
JsLe(x, y) == IsNum(x) /\ IsNum(y) /\ x <= y
\* === on the values the machine holds: NaN is not equal to itself
JsEq(x, y) == x # NaN /\ y # NaN /\ x = y

Bit(c) == IF c THEN 1 ELSE 0

-----------------------------------------------------------------------------
(* The stack array.  new Array(2000).fill(0): every index below the length *)
(* at the last fill reads 0 unless written since; any other key reads      *)
(* undefined unless written.  A write at an index at or above the length   *)
(* grows the array; a write at a negative index, NaN or undefined sets an  *)
(* ordinary property, which fill() never touches.                          *)

StackSize == 2000

\* stack[i]
Rd(st, fl, i) ==
    IF i \in DOMAIN st THEN st[i]
    ELSE IF IsNum(i) /\ i >= 0 /\ i < fl THEN 0
    ELSE Undef

\* stack[i] = v, on the cells (a filled cell holding 0 is not recorded)
Wr(st, fl, i, v) ==
    IF IsNum(i) /\ i >= 0 /\ i < fl /\ v = 0
    THEN [k \in (DOMAIN st) \ {i} |-> st[k]]
    ELSE [k \in (DOMAIN st) \cup {i} |-> IF k = i THEN v ELSE st[k]]

\* stack[i] = v, on the length
WrLen(len, i) == IF IsNum(i) /\ i >= len THEN i + 1 ELSE len

\* stack.fill(0): every index 0..length-1 becomes 0, other properties stay
Fill0(st) == [k \in {j \in DOMAIN st : ~(IsNum(j) /\ j >= 0)} |-> st[k]]

\* an array with no cell written
NoCells == [k \in {} |-> 0]

-----------------------------------------------------------------------------
(* The virtual machine (src/compiler/vm.ts).  A machine value m holds the  *)
(* fields one loop iteration reads and writes; out collects the messages   *)
(* given to onOutput and err the message of a thrown error ("" if none).   *)

\* an instruction
Ins(f, l, a) == [f |-> f, l |-> l, a |-> a]

\* the messages run() hands to onOutput
MsgPrompt == [text |-> "prompt", val |-> 0]     \* "请输入 > "
MsgDone   == [text |-> "done", val |-> 0]       \* "程序运行结束。\n"
MsgValue(v) == [text |-> "value", val |-> v]    \* `${v}\n`

ErrDivZero  == "Runtime Error: Division by zero"
ErrType     == "TypeError"                      \* i.a of an undefined instruction
ErrRejected == "input rejected"                 \* the rejection of onRequestInput()

Machine == [stack |-> stack, len |-> stackLen, fl |-> filled,
            p |-> p, b |-> b, t |-> t, out |-> output, err |-> error]

Load(m, i) == Rd(m.stack, m.fl, i)

Store(m, i, v) == [m EXCEPT !.stack = Wr(m.stack, m.fl, i, v), !.len = WrLen(m.len, i)]

Emit(m, msg) == [m EXCEPT !.out = Append(m.out, msg)]

Throw(m, msg) == [m EXCEPT !.err = msg]

RECURSIVE BaseFrom(_, _, _)
BaseFrom(m, b1, l) == IF JsLt(0, l) THEN BaseFrom(m, Load(m, b1), l - 1) ELSE b1

\* VirtualMachine.base
base(m, l) == BaseFrom(m, m.b, l)

\* this.t--
DecT(m) == [m EXCEPT !.t = JsSub(m.t, 1)]

\* this.t++
IncT(m) == [m EXCEPT !.t = JsAdd(m.t, 1)]

\* t--; stack[t-1] = stack[t-1] <op> stack[t]
Binary(m, F(_, _)) ==
    LET m1 == DecT(m)
        i  == JsSub(m1.t, 1)
    IN  Store(m1, i, F(Load(m1, i), Load(m1, m1.t)))

OpRET(m) ==
    LET m1 == [m EXCEPT !.t = m.b]
        m2 == [m1 EXCEPT !.p = Load(m1, JsAdd(m1.t, 2))]
    IN  [m2 EXCEPT !.b = Load(m2, JsAdd(m2.t, 1))]

OpNEG(m) == LET i == JsSub(m.t, 1) IN Store(m, i, JsNeg(Load(m, i)))

OpDIV(m) ==
    LET m1 == DecT(m)
        i  == JsSub(m1.t, 1)
    IN  IF JsEq(Load(m1, m1.t), 0)
        THEN Throw(m1, ErrDivZero)
        ELSE Store(m1, i, JsFloorDiv(Load(m1, i), Load(m1, m1.t)))

OpODD(m) == LET i == JsSub(m.t, 1) IN Store(m, i, JsRem(Load(m, i), 2))

\* a machine whose OPR 4 adds
MulThatAdds(x, y) == JsAdd(x, y)

FnADD(x, y) == JsAdd(x, y)
FnSUB(x, y) == JsSub(x, y)
FnMUL(x, y) == JsMul(x, y)
FnEQL(x, y) == Bit(JsEq(x, y))
FnNEQ(x, y) == Bit(~JsEq(x, y))
FnLSS(x, y) == Bit(JsLt(x, y))
FnGEQ(x, y) == Bit(JsLe(y, x))
FnGTR(x, y) == Bit(JsLt(y, x))
FnLEQ(x, y) == Bit(JsLe(x, y))

\* case PCodeF.OPR, every operator code but 16 (which awaits input)
ExecOPR(m, a) ==
    CASE a = 0  -> OpRET(m)
      [] a = 1  -> OpNEG(m)
      [] a = 2  -> Binary(m, FnADD)
      [] a = 3  -> Binary(m, FnSUB)
      [] a = 4  -> Binary(m, FnMUL)
      [] a = 5  -> OpDIV(m)
      [] a = 6  -> OpODD(m)
      [] a = 8  -> Binary(m, FnEQL)
      [] a = 9  -> Binary(m, FnNEQ)
      [] a = 10 -> Binary(m, FnLSS)
      [] a = 11 -> Binary(m, FnGEQ)
      [] a = 12 -> Binary(m, FnGTR)
      [] a = 13 -> Binary(m, FnLEQ)
      [] OTHER  -> m

OpLIT(m, a) == IncT(Store(m, m.t, a))

OpLOD(m, l, a) == IncT(Store(m, m.t, Load(m, JsAdd(base(m, l), a))))

OpSTO(m, l, a) == LET m1 == DecT(m) IN Store(m1, JsAdd(base(m1, l), a), Load(m1, m1.t))

OpCAL(m, l, a) ==
    LET m1 == Store(m, m.t, base(m, l))
        m2 == Store(m1, JsAdd(m1.t, 1), m1.b)
        m3 == Store(m2, JsAdd(m2.t, 2), m2.p)
    IN  [m3 EXCEPT !.b = m3.t, !.p = a]

OpINT(m, a) == [m EXCEPT !.t = JsAdd(m.t, a)]

OpJMP(m, a) == [m EXCEPT !.p = a]

OpJPC(m, a) ==
    LET m1 == DecT(m)
    IN  IF JsEq(Load(m1, m1.t), 0) THEN [m1 EXCEPT !.p = a] ELSE m1

\* WRT that emits the cell above the one it pops
OpWrtAbove(m) == LET m1 == DecT(m) IN Emit(m1, MsgValue(Load(m1, m.t)))

OpWRT(m) == LET m1 == DecT(m) IN Emit(m1, MsgValue(Load(m1, m1.t)))

\* a machine in which every OPR awaits input
IsReadAnyOPR(i) == i.f = "OPR" \/ i.f = "RED"

\* OPR 16 and RED call onRequestInput() and await it
IsRead(i) == (i.f = "OPR" /\ i.a = 16) \/ i.f = "RED"

\* the part of OPR 16 / RED before the await
BeforeAwait(m) == Emit(m, MsgPrompt)

\* the part of OPR 16 / RED after the await, val being the value supplied
AfterAwait(m, i, val) ==
    IF i.f = "RED"
    THEN Emit(Store(m, JsAdd(base(m, i.l), i.a), val), MsgValue(val))
    ELSE Emit(IncT(Store(m, m.t, val)), MsgValue(val))

\* the switch of run(), for an instruction that does not await
Exec(m, i) ==
    CASE i.f = "LIT" -> OpLIT(m, i.a)
      [] i.f = "OPR" -> ExecOPR(m, i.a)
      [] i.f = "LOD" -> OpLOD(m, i.l, i.a)
      [] i.f = "STO" -> OpSTO(m, i.l, i.a)
      [] i.f = "CAL" -> OpCAL(m, i.l, i.a)
      [] i.f = "INT" -> OpINT(m, i.a)
      [] i.f = "JMP" -> OpJMP(m, i.a)
      [] i.f = "JPC" -> OpJPC(m, i.a)
      [] i.f = "WRT" -> OpWRT(m)
      [] OTHER -> m

\* while (this.p < this.instructions.length)
LoopGuard(m, ins) == JsLt(m.p, Len(ins))

\* if (this.p === 0) break
BreakAtZero(m) == JsEq(m.p, 0)

-----------------------------------------------------------------------------
(* Strings.  Source text, lexemes, names and quadruple fields are strings;  *)
(* the character at position i (from 1) of s is SubSeq(s, i, i).            *)

LowerLetters == "abcdefghijklmnopqrstuvwxyz"
UpperLetters == "ABCDEFGHIJKLMNOPQRSTUVWXYZ"
Digits == "0123456789"

CharsOf(s) == {SubSeq(s, i, i) : i \in 1..Len(s)}

\* the position (from 1) of the character ch in s, 0 if it is not there
IndexOf(s, ch) ==
    IF ch \in CharsOf(s) THEN CHOOSE i \in 1..Len(s) : SubSeq(s, i, i) = ch ELSE 0

\* /[a-zA-Z]/, /[0-9]/, /[a-zA-Z0-9]/ and /\s/
IsLetter(ch) == ch \in CharsOf(LowerLetters) \cup CharsOf(UpperLetters)
IsDigit(ch) == ch \in CharsOf(Digits)
IsAlnum(ch) == IsLetter(ch) \/ IsDigit(ch)
IsSpace(ch) == ch \in {" ", "\t", "\n", "\r", "\f"}

\* String.prototype.toLowerCase on letters and digits
RECURSIVE toLowerCase(_)
toLowerCase(s) ==
    IF s = "" THEN ""
    ELSE LET ch == SubSeq(s, 1, 1)
             k  == IndexOf(UpperLetters, ch)
         IN  (IF k = 0 THEN ch ELSE SubSeq(LowerLetters, k, k)) \o toLowerCase(Tail(s))

\* the value of a string of digits
RECURSIVE DigitsValue(_, _)
DigitsValue(s, acc) ==
    IF s = "" THEN acc
    ELSE DigitsValue(Tail(s), acc * 10 + (IndexOf(Digits, SubSeq(s, 1, 1)) - 1))

\* the length of the longest prefix of s made of digits
RECURSIVE DigitPrefix(_)
DigitPrefix(s) ==
    IF s # "" /\ IsDigit(SubSeq(s, 1, 1)) THEN 1 + DigitPrefix(Tail(s)) ELSE 0

\* parseInt(s, 10) for s without leading blanks: NaN when no digit leads (after a sign)
parseInt(s) ==
    LET neg  == s # "" /\ SubSeq(s, 1, 1) = "-"
        body == IF s # "" /\ SubSeq(s, 1, 1) \in {"-", "+"} THEN Tail(s) ELSE s
        n    == DigitPrefix(body)
    IN  IF n = 0 THEN NaN
        ELSE IF neg THEN -DigitsValue(SubSeq(body, 1, n), 0)
        ELSE DigitsValue(SubSeq(body, 1, n), 0)

\* Number.prototype.toString on an integer
RECURSIVE NatToString(_)
NatToString(n) ==
    IF n < 10 THEN SubSeq(Digits, n + 1, n + 1)
    ELSE NatToString(n \div 10) \o SubSeq(Digits, (n % 10) + 1, (n % 10) + 1)

toString(n) ==
    IF n = NaN THEN "NaN"
    ELSE IF n = Undef THEN "undefined"
    ELSE IF n < 0 THEN "-" \o NatToString(-n)
    ELSE NatToString(n)

\* the element of a one-element set: Only({e : x \in {v}}) is e with x bound to the
\* value of v, computed once
Only(S) == CHOOSE x \in S : TRUE

startsWith(s, prefix) == Len(s) >= Len(prefix) /\ SubSeq(s, 1, Len(prefix)) = prefix

\* s.substring(k), k counted from 0
substring(s, k) == SubSeq(s, k + 1, Len(s))

-----------------------------------------------------------------------------
(* The lexer (src/compiler/lexer.ts).  A token type is written by its name  *)
(* in the TokenType enumeration.                                            *)

KEYWORDS ==
    ("program" :> "PROGRAM") @@ ("const" :> "CONST") @@ ("var" :> "VAR") @@
    ("procedure" :> "PROCEDURE") @@ ("begin" :> "BEGIN") @@ ("end" :> "END") @@
    ("odd" :> "ODD") @@ ("if" :> "IF") @@ ("then" :> "THEN") @@ ("else" :> "ELSE") @@
    ("while" :> "WHILE") @@ ("do" :> "DO") @@ ("call" :> "CALL") @@
    ("read" :> "READ") @@ ("write" :> "WRITE")

SYMBOLS ==
    ("+" :> "PLUS") @@ ("-" :> "MINUS") @@ ("*" :> "TIMES") @@ ("/" :> "SLASH") @@
    ("(" :> "LPAREN") @@ (")" :> "RPAREN") @@ ("," :> "COMMA") @@ (";" :> "SEMICOLON") @@
    ("." :> "PERIOD") @@ ("=" :> "EQL") @@ ("<>" :> "NEQ") @@ ("<" :> "LSS") @@
    ("<=" :> "LEQ") @@ (">" :> "GTR") @@ (">=" :> "GEQ") @@ (":=" :> "BECOMES")

Token(sym, lexeme, value, line) ==
    [sym |-> sym, lexeme |-> lexeme, value |-> value, line |-> line]

\* the lexer's fields and what tokenize() has pushed or thrown so far
LexState(pos, line, tokens) ==
    [pos |-> pos, line |-> line, tokens |-> tokens, error |-> "", ch |-> ""]

\* throw new Error(msg): line is kept, ch is the offending character
LexThrow(st, msg, ch) == [st EXCEPT !.error = msg, !.ch = ch]

\* tokens.push(...) after the lexer advanced to position pos
LexPush(st, pos, sym, lexeme, value) ==
    [st EXCEPT !.pos = pos, !.tokens = Append(st.tokens, Token(sym, lexeme, value, st.line))]

ErrLexColon(line) == "Lexical Error at line " \o toString(line) \o ": Expected '=' after ':'"
\* the message with the line of the first character of the text
ErrLexFirstLine(line, ch) == "Lexical Error at line 1: Unknown character '" \o ch \o "'"

ErrLexUnknown(line, ch) ==
    "Lexical Error at line " \o toString(line) \o ": Unknown character '" \o ch \o "'"

\* src[pos], '' past the end (pos counted from 0)
LexPeek(src, pos) == IF pos < Len(src) THEN SubSeq(src, pos + 1, pos + 1) ELSE ""

\* the end of the run of letters and digits, or of digits, that starts at pos
RECURSIVE ScanAlnum(_, _)
ScanAlnum(src, pos) ==
    IF LexPeek(src, pos) # "" /\ IsAlnum(LexPeek(src, pos)) THEN ScanAlnum(src, pos + 1) ELSE pos

RECURSIVE ScanDigits(_, _)
ScanDigits(src, pos) ==
    IF LexPeek(src, pos) # "" /\ IsDigit(LexPeek(src, pos)) THEN ScanDigits(src, pos + 1) ELSE pos

\* while (this.pos < this.src.length)
LexGuard(src, st) == st.error = "" /\ st.pos < Len(src)

\* one iteration of the loop of tokenize()
LexStep(src, st) ==
    LET pos == st.pos
        ch  == LexPeek(src, pos)
        nx  == LexPeek(src, pos + 1)
        e   == IF IsLetter(ch) THEN ScanAlnum(src, pos) ELSE ScanDigits(src, pos)
        run == SubSeq(src, pos + 1, e)
    IN  CASE IsSpace(ch) ->
               [st EXCEPT !.pos = pos + 1, !.line = IF ch = "\n" THEN st.line + 1 ELSE st.line]
          [] IsLetter(ch) ->
               IF toLowerCase(run) \in DOMAIN KEYWORDS
               THEN LexPush(st, e, KEYWORDS[toLowerCase(run)], toLowerCase(run), 0)
               ELSE LexPush(st, e, "IDENT", run, 0)
          [] IsDigit(ch) -> LexPush(st, e, "NUMBER", run, parseInt(run))
          [] ch = ":" ->
               IF nx = "=" THEN LexPush(st, pos + 2, "BECOMES", ":=", 0)
               ELSE LexThrow([st EXCEPT !.pos = pos + 1], ErrLexColon(st.line), "")
          [] ch = "<" ->
               IF nx = "=" THEN LexPush(st, pos + 2, "LEQ", "<=", 0)
               ELSE IF nx = ">" THEN LexPush(st, pos + 2, "NEQ", "<>", 0)
               ELSE LexPush(st, pos + 1, "LSS", "<", 0)
          [] ch = ">" ->
               IF nx = "=" THEN LexPush(st, pos + 2, "GEQ", ">=", 0)
               ELSE LexPush(st, pos + 1, "GTR", ">", 0)
          [] OTHER ->
               IF ch \in DOMAIN SYMBOLS THEN LexPush(st, pos + 1, SYMBOLS[ch], ch, 0)
               ELSE LexThrow(st, ErrLexUnknown(st.line, ch), ch)

\* at most n iterations of the loop, from st
RECURSIVE LexLoop(_, _, _)
LexLoop(src, st, n) ==
    IF n = 0 \/ ~LexGuard(src, st) THEN st
    ELSE IF n = 1 THEN LexStep(src, st)
    ELSE LexLoop(src, LexLoop(src, st, n \div 2), n - (n \div 2))

\* Lexer.tokenize: the tokens, or the error thrown (every iteration consumes a character)
tokenize(src) ==
    Only({ [ok |-> st.error = "", tokens |-> IF st.error = "" THEN st.tokens ELSE <<>>,
            error |-> st.error, line |-> st.line, ch |-> st.ch]
           : st \in {LexLoop(src, LexState(0, 1, <<>>), Len(src))} })

-----------------------------------------------------------------------------
(* The parser (src/compiler/parser.ts).  A parser state ps holds pos and    *)
(* the message of the error thrown, "" if none; once an error is thrown     *)
(* nothing more is consumed and the first message is the one reported.      *)
(* Every parse function returns the state it leaves and the node it built.  *)

NullNode == [type |-> "null"]

ProgramNode(name, block) == [type |-> "ProgramNode", name |-> name, block |-> block]
BlockNode(constDecl, varDecl, procs, body) ==
    [type |-> "BlockNode", constDecl |-> constDecl, varDecl |-> varDecl,
     procs |-> procs, body |-> body]
ConstDeclNode(consts) == [type |-> "ConstDeclNode", consts |-> consts]
VarDeclNode(vs) == [type |-> "VarDeclNode", vars |-> vs]
ProcNode(name, params, block) ==
    [type |-> "ProcNode", name |-> name, params |-> params, block |-> block]
BodyNode(statements) == [type |-> "BodyNode", statements |-> statements]
AssignNode(varName, expr) == [type |-> "AssignNode", varName |-> varName, expr |-> expr]
IfNode(lexp, thenStmt, elseStmt) ==
    [type |-> "IfNode", lexp |-> lexp, thenStmt |-> thenStmt, elseStmt |-> elseStmt]
WhileNode(lexp, bodyStmt) == [type |-> "WhileNode", lexp |-> lexp, bodyStmt |-> bodyStmt]
CallNode(procName, args) == [type |-> "CallNode", procName |-> procName, args |-> args]
ReadNode(vs) == [type |-> "ReadNode", vars |-> vs]
WriteNode(exprs) == [type |-> "WriteNode", exprs |-> exprs]
BinOpNode(op, left, right) == [type |-> "BinOpNode", op |-> op, left |-> left, right |-> right]
OddNode(expr) == [type |-> "OddNode", expr |-> expr]
NumNode(value) == [type |-> "NumNode", value |-> value]
VarNode(name) == [type |-> "VarNode", name |-> name]
ParenNode(expr) == [type |-> "ParenNode", expr |-> expr]

ParserState(pos, err) == [pos |-> pos, err |-> err]

Parsed(ps, node) == [ps |-> ps, node |-> node]

\* throw new Error(msg)
ParseThrow(ps, msg) == IF ps.err = "" THEN [ps EXCEPT !.err = msg] ELSE ps

\* this.peek() is a token
HasToken(toks, ps) == ps.err = "" /\ ps.pos < Len(toks)

\* this.peek()?.sym, "undefined" at the end of the tokens
PeekSym(toks, ps) == IF HasToken(toks, ps) THEN toks[ps.pos + 1].sym ELSE "undefined"

PeekLexeme(toks, ps) == IF HasToken(toks, ps) THEN toks[ps.pos + 1].lexeme ELSE ""

PeekValue(toks, ps) == IF HasToken(toks, ps) THEN toks[ps.pos + 1].value ELSE 0

MatchMessage(toks, ps, type) ==
    "Syntax Error at line "
       \o (IF HasToken(toks, ps) THEN toString(toks[ps.pos + 1].line) ELSE "end")
       \o ": Expected " \o type \o " but found "
       \o (IF HasToken(toks, ps) THEN toks[ps.pos + 1].sym ELSE "EOF")

\* Parser.match, on the state (the token matched is the one peeked before)
match(toks, ps, type) ==
    IF ps.err # "" THEN ps
    ELSE IF PeekSym(toks, ps) = type THEN [ps EXCEPT !.pos = ps.pos + 1]
    ELSE ParseThrow(ps, MatchMessage(toks, ps, type))

StatementMessage(toks, ps) ==
    "Syntax Error at line "
       \o (IF HasToken(toks, ps) THEN toString(toks[ps.pos + 1].line) ELSE "undefined")
       \o ": Unexpected token " \o PeekSym(toks, ps)

ErrLExp == "Syntax Error: Expected relational operator in lexp"

FactorMessage(toks, ps) == "Syntax Error: Unexpected factor " \o PeekSym(toks, ps)

\* do { push(match(IDENT).lexeme); if (peek is COMMA) match(COMMA); else break } while (true)
RECURSIVE IdentList(_, _, _)
IdentList(toks, ps, names) ==
    Only({ IF p1.err # "" THEN Parsed(p1, names)
           ELSE IF PeekSym(toks, p1) = "COMMA"
           THEN IdentList(toks, match(toks, p1, "COMMA"), Append(names, PeekLexeme(toks, ps)))
           ELSE Parsed(p1, Append(names, PeekLexeme(toks, ps)))
           : p1 \in {match(toks, ps, "IDENT")} })

\* the loop of parseConstDecl
RECURSIVE ConstList(_, _, _)
ConstList(toks, ps, consts) ==
    Only({ Only({ IF p3.err # "" THEN Parsed(p3, consts)
                  ELSE IF PeekSym(toks, p3) = "COMMA"
                  THEN ConstList(toks, match(toks, p3, "COMMA"), cs)
                  ELSE Parsed(p3, cs)
                  : cs \in {Append(consts, [name |-> PeekLexeme(toks, ps),
                                            value |-> PeekValue(toks, p2)])} })
           : p2 \in {match(toks, match(toks, ps, "IDENT"), "BECOMES")},
             p3 \in {match(toks, match(toks, match(toks, ps, "IDENT"), "BECOMES"), "NUMBER")} })

parseConstDecl(toks, ps) ==
    Only({ Parsed(match(toks, r.ps, "SEMICOLON"), ConstDeclNode(r.node))
           : r \in {ConstList(toks, match(toks, ps, "CONST"), <<>>)} })

parseVarDecl(toks, ps) ==
    Only({ Parsed(IF PeekSym(toks, r.ps) = "SEMICOLON" THEN match(toks, r.ps, "SEMICOLON")
                  ELSE r.ps,
                  VarDeclNode(r.node))
           : r \in {IdentList(toks, match(toks, ps, "VAR"), <<>>)} })

RECURSIVE parseBlock(_, _)
RECURSIVE parseProc(_, _)
RECURSIVE ProcList(_, _, _)
RECURSIVE parseBody(_, _)
RECURSIVE BodyLoop(_, _, _)
RECURSIVE parseStatement(_, _)
RECURSIVE ExpList(_, _, _)
RECURSIVE parseLExp(_, _)
RECURSIVE parseExpression(_, _)
RECURSIVE ExpressionLoop(_, _, _)
RECURSIVE parseTerm(_, _)
RECURSIVE TermLoop(_, _, _)
RECURSIVE parseFactor(_, _)

parseFactor(toks, ps) ==
    LET sym == PeekSym(toks, ps)
    IN  IF sym = "IDENT" THEN Parsed(match(toks, ps, "IDENT"), VarNode(PeekLexeme(toks, ps)))
        ELSE IF sym = "NUMBER"
        THEN Parsed(match(toks, ps, "NUMBER"), NumNode(PeekValue(toks, ps)))
        ELSE IF sym = "LPAREN"
        THEN Only({ Parsed(match(toks, r.ps, "RPAREN"), ParenNode(r.node))
                    : r \in {parseExpression(toks, match(toks, ps, "LPAREN"))} })
        ELSE Parsed(ParseThrow(ps, FactorMessage(toks, ps)), NullNode)

\* the while loop of parseTerm
TermLoop(toks, ps, node) ==
    IF PeekSym(toks, ps) \in {"TIMES", "SLASH"}
    THEN Only({ TermLoop(toks, r.ps, BinOpNode(PeekLexeme(toks, ps), node, r.node))
                : r \in {parseFactor(toks, match(toks, ps, PeekSym(toks, ps)))} })
    ELSE Parsed(ps, node)

parseTerm(toks, ps) ==
    Only({ TermLoop(toks, r.ps, r.node) : r \in {parseFactor(toks, ps)} })

\* the while loop of parseExpression
ExpressionLoop(toks, ps, node) ==
    IF PeekSym(toks, ps) \in {"PLUS", "MINUS"}
    THEN Only({ ExpressionLoop(toks, r.ps, BinOpNode(PeekLexeme(toks, ps), node, r.node))
                : r \in {parseTerm(toks, match(toks, ps, PeekSym(toks, ps)))} })
    ELSE Parsed(ps, node)

parseExpression(toks, ps) ==
    LET signed == PeekSym(toks, ps) \in {"PLUS", "MINUS"}
        sign   == IF signed THEN PeekLexeme(toks, ps) ELSE ""
    IN  Only({ ExpressionLoop(toks, r.ps,
                              IF sign = "-" THEN BinOpNode("-", NumNode(0), r.node)
                              ELSE r.node)
               : r \in {parseTerm(toks, IF signed THEN match(toks, ps, PeekSym(toks, ps))
                                        ELSE ps)} })

parseLExp(toks, ps) ==
    IF PeekSym(toks, ps) = "ODD"
    THEN Only({ Parsed(r.ps, OddNode(r.node))
                : r \in {parseExpression(toks, match(toks, ps, "ODD"))} })
    ELSE Only({ IF PeekSym(toks, l.ps) \in {"EQL", "NEQ", "LSS", "LEQ", "GTR", "GEQ"}
                THEN Only({ Parsed(r.ps, BinOpNode(PeekLexeme(toks, l.ps), l.node, r.node))
                            : r \in {parseExpression(toks, match(toks, l.ps,
                                                                 PeekSym(toks, l.ps)))} })
                ELSE Parsed(ParseThrow(l.ps, ErrLExp), NullNode)
                : l \in {parseExpression(toks, ps)} })

\* do { push(parseExpression()); if (peek is COMMA) match(COMMA); else break } while (true)
ExpList(toks, ps, exprs) ==
    Only({ IF r.ps.err # "" THEN Parsed(r.ps, exprs)
           ELSE IF PeekSym(toks, r.ps) = "COMMA"
           THEN ExpList(toks, match(toks, r.ps, "COMMA"), Append(exprs, r.node))
           ELSE Parsed(r.ps, Append(exprs, r.node))
           : r \in {parseExpression(toks, ps)} })

\* if (sym === IF): match(IF), parseLExp, match(THEN), parseStatement, an optional ELSE
parseIf(toks, ps) ==
    Only({ Only({ IF PeekSym(toks, th.ps) = "ELSE"
                  THEN Only({ Parsed(el.ps, IfNode(c.node, th.node, el.node))
                              : el \in {parseStatement(toks, match(toks, th.ps, "ELSE"))} })
                  ELSE Parsed(th.ps, IfNode(c.node, th.node, NullNode))
                  : th \in {parseStatement(toks, match(toks, c.ps, "THEN"))} })
           : c \in {parseLExp(toks, match(toks, ps, "IF"))} })

\* if (sym === WHILE): match(WHILE), parseLExp, match(DO), parseStatement
parseWhile(toks, ps) ==
    Only({ Only({ Parsed(st.ps, WhileNode(c.node, st.node))
                  : st \in {parseStatement(toks, match(toks, c.ps, "DO"))} })
           : c \in {parseLExp(toks, match(toks, ps, "WHILE"))} })

\* if (sym === CALL): match(CALL), match(IDENT), an optional argument list
parseCall(toks, ps) ==
    Only({ IF PeekSym(toks, p2) = "LPAREN"
           THEN Only({ Parsed(match(toks, r.ps, "RPAREN"), CallNode(id, r.node))
                       : r \in {IF PeekSym(toks, match(toks, p2, "LPAREN")) # "RPAREN"
                                THEN ExpList(toks, match(toks, p2, "LPAREN"), <<>>)
                                ELSE Parsed(match(toks, p2, "LPAREN"), <<>>)} })
           ELSE Parsed(p2, CallNode(id, <<>>))
           : id \in {PeekLexeme(toks, match(toks, ps, "CALL"))},
             p2 \in {match(toks, match(toks, ps, "CALL"), "IDENT")} })

parseStatement(toks, ps) ==
    LET sym == PeekSym(toks, ps)
    IN  CASE sym = "IDENT" ->
               Only({ Parsed(r.ps, AssignNode(PeekLexeme(toks, ps), r.node))
                      : r \in {parseExpression(toks, match(toks, match(toks, ps, "IDENT"),
                                                           "BECOMES"))} })
          [] sym = "IF" -> parseIf(toks, ps)
          [] sym = "WHILE" -> parseWhile(toks, ps)
          [] sym = "CALL" -> parseCall(toks, ps)
          [] sym = "BEGIN" -> parseBody(toks, ps)
          [] sym = "READ" ->
               Only({ Parsed(match(toks, r.ps, "RPAREN"), ReadNode(r.node))
                      : r \in {IdentList(toks, match(toks, match(toks, ps, "READ"), "LPAREN"),
                                         <<>>)} })
          [] sym = "WRITE" ->
               Only({ Parsed(match(toks, r.ps, "RPAREN"), WriteNode(r.node))
                      : r \in {ExpList(toks, match(toks, match(toks, ps, "WRITE"), "LPAREN"),
                                       <<>>)} })
          [] OTHER -> Parsed(ParseThrow(ps, StatementMessage(toks, ps)), NullNode)

\* the while loop of parseBody
BodyLoop(toks, ps, stmts) ==
    IF PeekSym(toks, ps) = "SEMICOLON"
    THEN Only({ IF PeekSym(toks, p1) # "END"
                THEN Only({ BodyLoop(toks, r.ps, Append(stmts, r.node))
                            : r \in {parseStatement(toks, p1)} })
                ELSE BodyLoop(toks, p1, stmts)
                : p1 \in {match(toks, ps, "SEMICOLON")} })
    ELSE Parsed(ps, stmts)

parseBody(toks, ps) ==
    Only({ Only({ Parsed(match(toks, r.ps, "END"), BodyNode(r.node))
                  : r \in {BodyLoop(toks, s.ps, <<s.node>>)} })
           : s \in {parseStatement(toks, match(toks, ps, "BEGIN"))} })

\* the while loop of parseBlock
ProcList(toks, ps, procs) ==
    IF PeekSym(toks, ps) = "PROCEDURE"
    THEN Only({ ProcList(toks, r.ps, Append(procs, r.node)) : r \in {parseProc(toks, ps)} })
    ELSE Parsed(ps, procs)

parseProc(toks, ps) ==
    Only({ Only({ Only({ Parsed(match(toks, bl.ps, "SEMICOLON"),
                                ProcNode(id, params.node, bl.node))
                         : bl \in {parseBlock(toks, match(toks, match(toks, params.ps, "RPAREN"),
                                                          "SEMICOLON"))} })
                  : params \in {IF PeekSym(toks, p2) = "IDENT" THEN IdentList(toks, p2, <<>>)
                                ELSE Parsed(p2, <<>>)} })
           : id \in {PeekLexeme(toks, match(toks, ps, "PROCEDURE"))},
             p2 \in {match(toks, match(toks, match(toks, ps, "PROCEDURE"), "IDENT"),
                           "LPAREN")} })

parseBlock(toks, ps) ==
    Only({ Only({ Only({ Only({ Parsed(bd.ps, BlockNode(cd.node, vd.node, pr.node, bd.node))
                                : bd \in {parseBody(toks, pr.ps)} })
                         : pr \in {ProcList(toks, vd.ps, <<>>)} })
                  : vd \in {IF PeekSym(toks, cd.ps) = "VAR" THEN parseVarDecl(toks, cd.ps)
                            ELSE Parsed(cd.ps, NullNode)} })
           : cd \in {IF PeekSym(toks, ps) = "CONST" THEN parseConstDecl(toks, ps)
                     ELSE Parsed(ps, NullNode)} })

\* Parser.parse: the program node, or the message of the error thrown
parse(toks) ==
    Only({ Only({ IF p3.err # "" THEN [ok |-> FALSE, ast |-> NullNode, error |-> p3.err]
                  ELSE [ok |-> TRUE, ast |-> ProgramNode(PeekLexeme(toks, p1), bl.node),
                        error |-> ""]
                  : p3 \in {match(toks, bl.ps, "PERIOD")} })
           : p1 \in {match(toks, ParserState(0, ""), "PROGRAM")},
             bl \in {parseBlock(toks, match(toks, match(toks, match(toks, ParserState(0, ""),
                                                                    "PROGRAM"),
                                                        "IDENT"), "SEMICOLON"))} })

-----------------------------------------------------------------------------
(* The symbol table generator (src/compiler/symbolTable.ts).  An entry's    *)
(* addr is a number or the empty string; the empty string is recorded as    *)
(* NoAddr, the number Number('') gives wherever an addr is used.            *)

NoAddr == 0

SymbolEntry(name, kind, valLevel, addr, size, numParams) ==
    [name |-> name, kind |-> kind, valLevel |-> valLevel, addr |-> addr,
     size |-> size, numParams |-> numParams]

\* new SymbolTable(name, level)
SymbolTable(name, level) ==
    [name |-> name, level |-> level, entries |-> <<>>, children |-> <<>>, varOffset |-> 3]

add_symbol(table, entry) == [table EXCEPT !.entries = Append(table.entries, entry)]

\* for (const c of node.constDecl.consts), from the i-th on
RECURSIVE AddConsts(_, _, _)
AddConsts(table, consts, i) ==
    IF i > Len(consts) THEN table
    ELSE AddConsts(add_symbol(table, SymbolEntry(consts[i].name, "constant", consts[i].value,
                                                 NoAddr, 1, 0)),
                   consts, i + 1)

\* for (const v of node.varDecl.vars), from the i-th on
RECURSIVE AddVars(_, _, _, _)
AddVars(table, vs, i, level) ==
    IF i > Len(vs) THEN table
    ELSE AddVars(add_symbol([table EXCEPT !.varOffset = table.varOffset + 1],
                            SymbolEntry(vs[i], "variable", level, table.varOffset, 1, 0)),
                 vs, i + 1, level)

\* a generator that gives the i-th parameter the offset -i
RECURSIVE AddParamsAscending(_, _, _, _)
AddParamsAscending(table, params, i, level) ==
    IF i > Len(params) THEN table
    ELSE AddParamsAscending(add_symbol(table, SymbolEntry(params[i], "variable", level, -i, 1, 0)),
                            params, i + 1, level)

\* for (let i = 0; i < numParams; i++), i counted from 1 here
RECURSIVE AddParams(_, _, _, _)
AddParams(table, params, i, level) ==
    IF i > Len(params) THEN table
    ELSE AddParams(add_symbol(table, SymbolEntry(params[i], "variable", level,
                                                 -(Len(params) - (i - 1)), 1, 0)),
                   params, i + 1, level)

RECURSIVE genBlock(_, _, _)
RECURSIVE AddProcs(_, _, _, _)

\* for (const proc of node.procs), from the i-th on
AddProcs(table, procs, i, level) ==
    IF i > Len(procs) THEN table
    ELSE Only({ Only({ AddProcs([t1 EXCEPT !.children = Append(t1.children, child)],
                                procs, i + 1, level)
                       : t1 \in {add_symbol(table,
                                            SymbolEntry(procs[i].name, "procedure", level, NoAddr,
                                                        child.varOffset,
                                                        Len(procs[i].params)))} })
                : child \in {genBlock(procs[i].block,
                                      AddParams(SymbolTable(procs[i].name, level + 1),
                                                procs[i].params, 1, level + 1),
                                      level + 1)} })

\* SymbolTableGenerator.genBlock, on the current table at the current level
genBlock(node, table, level) ==
    Only({ AddProcs(IF node.varDecl # NullNode THEN AddVars(t1, node.varDecl.vars, 1, level)
                    ELSE t1,
                    node.procs, 1, level)
           : t1 \in {IF node.constDecl # NullNode THEN AddConsts(table, node.constDecl.consts, 1)
                     ELSE table} })

\* SymbolTableGenerator.generate
SymGenerate(ast) == genBlock(ast.block, SymbolTable("Global", 0), 0)

-----------------------------------------------------------------------------
(* The three-address code generator (TACGenerator).  A generator value g    *)
(* holds code, tempCount and labelCount; the current table is a parameter.  *)
(* procLabels[name] is `proc_${name}` whenever it is set, which is also the *)
(* default used when it is not, so it is not kept.                          *)

Quadruple(id, op, arg1, arg2, result) ==
    [id |-> id, op |-> op, arg1 |-> arg1, arg2 |-> arg2, result |-> result]

TACState == [code |-> <<>>, tempCount |-> 0, labelCount |-> 0]

\* newTemp(): the generator after it; the name it returns is LastTemp of that
newTemp(g) == [g EXCEPT !.tempCount = g.tempCount + 1]
LastTemp(g) == "T" \o toString(g.tempCount)

newLabel(g) == [g EXCEPT !.labelCount = g.labelCount + 1]
LastLabel(g) == "L" \o toString(g.labelCount)

emit(g, op, arg1, arg2, result) ==
    [g EXCEPT !.code = Append(g.code, Quadruple(Len(g.code), op, arg1, arg2, result))]

\* entries.find(e => e.name === name)
FindEntry(entries, name) ==
    IF \E i \in 1..Len(entries) : entries[i].name = name
    THEN [found |-> TRUE,
          entry |-> entries[CHOOSE i \in 1..Len(entries) :
                               /\ entries[i].name = name
                               /\ \A j \in 1..(i - 1) : entries[j].name # name]]
    ELSE [found |-> FALSE, entry |-> SymbolEntry("", "", 0, NoAddr, 0, 0)]

\* TACGenerator.lookup: the current table only
lookup(table, name) == FindEntry(table.entries, name)

GenResult(g, temp) == [g |-> g, t |-> temp]

RECURSIVE genExp(_, _, _)
genExp(g, node, table) ==
    CASE node.type = "NumNode" ->
           Only({ GenResult(emit(g1, ":=", toString(node.value), "", LastTemp(g1)), LastTemp(g1))
                  : g1 \in {newTemp(g)} })
      [] node.type = "VarNode" ->
           Only({ IF entry.found /\ entry.entry.kind = "constant"
                  THEN GenResult(emit(g1, ":=", toString(entry.entry.valLevel), "", LastTemp(g1)),
                                 LastTemp(g1))
                  ELSE GenResult(emit(g1, ":=", node.name, "", LastTemp(g1)), LastTemp(g1))
                  : entry \in {lookup(table, node.name)}, g1 \in {newTemp(g)} })
      [] node.type = "BinOpNode" ->
           Only({ Only({ Only({ GenResult(emit(g3, node.op, r1.t, r2.t, LastTemp(g3)),
                                          LastTemp(g3))
                                : g3 \in {newTemp(r2.g)} })
                         : r2 \in {genExp(r1.g, node.right, table)} })
                  : r1 \in {genExp(g, node.left, table)} })
      [] node.type = "OddNode" ->
           Only({ Only({ GenResult(emit(g2, "ODD", r1.t, "", LastTemp(g2)), LastTemp(g2))
                         : g2 \in {newTemp(r1.g)} })
                  : r1 \in {genExp(g, node.expr, table)} })
      [] node.type = "ParenNode" -> genExp(g, node.expr, table)
      [] OTHER -> GenResult(g, "")

\* for (const arg of stmt.args) { PARAM }, from the i-th on
RECURSIVE GenParams(_, _, _, _)
GenParams(g, args, i, table) ==
    IF i > Len(args) THEN g
    ELSE Only({ GenParams(emit(r.g, "PARAM", r.t, "", ""), args, i + 1, table)
                : r \in {genExp(g, args[i], table)} })

\* for (const v of stmt.vars) { READ; := }, from the i-th on
RECURSIVE GenReads(_, _, _)
GenReads(g, vs, i) ==
    IF i > Len(vs) THEN g
    ELSE Only({ GenReads(emit(emit(g1, "READ", "", "", LastTemp(g1)),
                              ":=", LastTemp(g1), "", vs[i]),
                         vs, i + 1)
                : g1 \in {newTemp(g)} })

\* for (const e of stmt.exprs) { WRITE }, from the i-th on
RECURSIVE GenWrites(_, _, _, _)
GenWrites(g, exprs, i, table) ==
    IF i > Len(exprs) THEN g
    ELSE Only({ GenWrites(emit(r.g, "WRITE", r.t, "", ""), exprs, i + 1, table)
                : r \in {genExp(g, exprs[i], table)} })

RECURSIVE genStatement(_, _, _)
RECURSIVE GenStatements(_, _, _, _)

\* for (const s of statements) genStatement(s), from the i-th on
GenStatements(g, stmts, i, table) ==
    IF i > Len(stmts) THEN g
    ELSE Only({ GenStatements(g1, stmts, i + 1, table)
                : g1 \in {genStatement(g, stmts[i], table)} })

\* case 'IfNode': labelElse and labelEnd are taken after the condition's code
genIf(g, stmt, table) ==
    Only({ Only({ Only({ Only({ emit(IF stmt.elseStmt # NullNode
                                     THEN genStatement(g4, stmt.elseStmt, table)
                                     ELSE g4,
                                     "LABEL", "", "", LastLabel(g2))
                                : g4 \in {emit(emit(g3, "JMP", "", "", LastLabel(g2)),
                                               "LABEL", "", "", LastLabel(g1))} })
                         : g3 \in {genStatement(emit(g2, "JZ", c.t, "", LastLabel(g1)),
                                                stmt.thenStmt, table)} })
                  : g1 \in {newLabel(c.g)}, g2 \in {newLabel(newLabel(c.g))} })
           : c \in {genExp(g, stmt.lexp, table)} })

\* case 'WhileNode': labelBegin and labelEnd are taken first
genWhile(g, stmt, table) ==
    Only({ Only({ Only({ emit(emit(g3, "JMP", "", "", LastLabel(g1)),
                              "LABEL", "", "", LastLabel(g2))
                         : g3 \in {genStatement(emit(c.g, "JZ", c.t, "", LastLabel(g2)),
                                                stmt.bodyStmt, table)} })
                  : c \in {genExp(emit(g2, "LABEL", "", "", LastLabel(g1)), stmt.lexp, table)} })
           : g1 \in {newLabel(g)}, g2 \in {newLabel(newLabel(g))} })

genStatement(g, stmt, table) ==
    CASE stmt.type = "AssignNode" ->
           Only({ emit(r.g, ":=", r.t, "", stmt.varName) : r \in {genExp(g, stmt.expr, table)} })
      [] stmt.type = "IfNode" -> genIf(g, stmt, table)
      [] stmt.type = "WhileNode" -> genWhile(g, stmt, table)
      [] stmt.type = "CallNode" ->
           Only({ emit(g2, "CALL", "proc_" \o stmt.procName, toString(Len(stmt.args)),
                       LastTemp(g2))
                  : g2 \in {newTemp(GenParams(g, stmt.args, 1, table))} })
      [] stmt.type = "ReadNode" -> GenReads(g, stmt.vars, 1)
      [] stmt.type = "WriteNode" -> GenWrites(g, stmt.exprs, 1, table)
      [] stmt.type = "BodyNode" -> GenStatements(g, stmt.statements, 1, table)
      [] OTHER -> g

genBlockBody(g, node, table) == GenStatements(g, node.body.statements, 1, table)

\* children.find(t => t.name === name), the table itself when there is none
ChildTable(table, name) ==
    IF \E i \in 1..Len(table.children) : table.children[i].name = name
    THEN table.children[CHOOSE i \in 1..Len(table.children) :
                           /\ table.children[i].name = name
                           /\ \A j \in 1..(i - 1) : table.children[j].name # name]
    ELSE table

RECURSIVE genBlockProcs(_, _, _)
RECURSIVE GenProcs(_, _, _, _)

\* for (const proc of node.procs), from the i-th on
GenProcs(g, procs, i, table) ==
    IF i > Len(procs) THEN g
    ELSE Only({ Only({ Only({ GenProcs(emit(emit(g3, "RET", procs[i].name, "", ""),
                                            "LABEL", "", "", LastLabel(g1)),
                                       procs, i + 1, table)
                              : g3 \in {genBlockBody(g2, procs[i].block, childTable)} })
                       : g2 \in {genBlockProcs(emit(emit(g1, "JMP", "", "", LastLabel(g1)),
                                                    "LABEL", "", "", "proc_" \o procs[i].name),
                                               procs[i].block, childTable)} })
                : g1 \in {newLabel(g)}, childTable \in {ChildTable(table, procs[i].name)} })

genBlockProcs(g, node, table) == GenProcs(g, node.procs, 1, table)

\* TACGenerator.generate on the generator g: the code starts empty, the counters go on
GenerateOn(g, ast, symbolTable) ==
    Only({ emit(genBlockBody(emit(g2, "LABEL", "", "", "proc_main"), ast.block, symbolTable),
                "END", "", "", "")
           : g2 \in {genBlockProcs(emit([g EXCEPT !.code = <<>>], "GOTO", "proc_main", "", ""),
                                   ast.block, symbolTable)} })

\* new TACGenerator(symbolTable).generate(ast), then its code
TACGenerate(ast, symbolTable) == GenerateOn(TACState, ast, symbolTable).code

-----------------------------------------------------------------------------
(* The target code generator (TargetCodeGenerator, the one with the public  *)
(* labelMap).  During pass 1 an instruction's a is a number or a string: a  *)
(* pass-1 instruction carries isLabel (typeof a === 'string') and label.    *)

\* the position (from 1) of the first occurrence of pat in s, 0 if there is none
FirstOccurrence(s, pat) ==
    LET at == {i \in 1..(Len(s) - Len(pat) + 1) : SubSeq(s, i, i + Len(pat) - 1) = pat}
    IN  IF at = {} THEN 0 ELSE CHOOSE i \in at : \A j \in at : i <= j

\* s.replace(pat, ''): the first occurrence only
RemoveFirst(s, pat) ==
    LET i == FirstOccurrence(s, pat)
    IN  IF i = 0 THEN s ELSE SubSeq(s, 1, i - 1) \o SubSeq(s, i + Len(pat), Len(s))

\* parseFloat(s) on the strings a quadruple field can hold: a signed run of digits
parseFloat(s) == parseInt(s)

\* the procedure entries in the order buildProcMap visits them
RECURSIVE ProcEntries(_)
RECURSIVE ChildProcEntries(_, _)
ChildProcEntries(children, i) ==
    IF i > Len(children) THEN <<>>
    ELSE ProcEntries(children[i]) \o ChildProcEntries(children, i + 1)

ProcEntries(table) ==
    SelectSeq(table.entries, LAMBDA e : e.kind = "procedure") \o ChildProcEntries(table.children, 1)

\* this.procMap[name]: the entry written last under that name
procMap(rootTable, name) ==
    LET es == ProcEntries(rootTable)
        at == {i \in 1..Len(es) : es[i].name = name}
    IN  IF at = {} THEN [found |-> FALSE, entry |-> SymbolEntry("", "", 0, NoAddr, 0, 0)]
        ELSE [found |-> TRUE, entry |-> es[CHOOSE i \in at : \A j \in at : j <= i]]

\* getScopeStack: the path of tables from the root to the first table named targetName
\* (in depth-first order), <<>> for null
RECURSIVE getScopeStack(_, _, _)
RECURSIVE ScopeInChildren(_, _, _, _)
ScopeInChildren(children, i, targetName, currentPath) ==
    IF i > Len(children) THEN <<>>
    ELSE Only({ IF res # <<>> THEN res
                ELSE ScopeInChildren(children, i + 1, targetName, currentPath)
                : res \in {getScopeStack(children[i], targetName, currentPath)} })

getScopeStack(table, targetName, path) ==
    IF table.name = targetName THEN Append(path, table)
    ELSE ScopeInChildren(table.children, 1, targetName, Append(path, table))

NotFound == [found |-> FALSE, entry |-> SymbolEntry("", "", 0, NoAddr, 0, 0), levelDiff |-> 0]

\* findSymbol: the innermost table on the scope stack that declares name
findSymbol(rootTable, name, scopeName) ==
    Only({ IF \A i \in 1..Len(scopes) : ~FindEntry(scopes[i].entries, name).found
           THEN NotFound
           ELSE Only({ [found |-> TRUE, entry |-> FindEntry(scopes[i].entries, name).entry,
                        levelDiff |-> Len(scopes) - i]
                       : i \in {i \in 1..Len(scopes) :
                                  /\ FindEntry(scopes[i].entries, name).found
                                  /\ \A j \in (i + 1)..Len(scopes) :
                                        ~FindEntry(scopes[j].entries, name).found} })
           : scopes \in {getScopeStack(rootTable, scopeName, <<>>)} })

\* a pass-1 instruction whose a is the number a, and one whose a is the string label
NumIns(f, l, a) == [f |-> f, l |-> l, a |-> a, isLabel |-> FALSE, label |-> ""]
LabelIns(f, l, label) == [f |-> f, l |-> l, a |-> 0, isLabel |-> TRUE, label |-> label]

\* the generator's fields during pass 1
TargetState == [instructions |-> <<>>, labelMap |-> [k \in {} |-> 0], currentProc |-> "Global"]

\* TargetCodeGenerator.emit
emitIns(gen, ins) == [gen EXCEPT !.instructions = Append(gen.instructions, ins)]

genStore(gen, rootTable, target) ==
    IF target = "" THEN gen
    ELSE Only({ IF dest.found THEN emitIns(gen, NumIns("STO", dest.levelDiff, dest.entry.addr))
                ELSE IF startsWith(target, "T")
                THEN emitIns(gen, NumIns("STO", 0, JsAdd(20, parseInt(substring(target, 1)))))
                ELSE gen
                : dest \in {findSymbol(rootTable, target, gen.currentProc)} })

genOperand(gen, rootTable, arg) ==
    IF arg = "" THEN gen
    ELSE IF parseFloat(arg) # NaN THEN emitIns(gen, NumIns("LIT", 0, parseFloat(arg)))
    ELSE IF startsWith(arg, "T")
    THEN emitIns(gen, NumIns("LOD", 0, JsAdd(20, parseInt(substring(arg, 1)))))
    ELSE Only({ IF sym.found /\ sym.entry.kind = "constant"
                THEN emitIns(gen, NumIns("LIT", 0, sym.entry.valLevel))
                ELSE IF sym.found /\ sym.entry.kind = "variable"
                THEN emitIns(gen, NumIns("LOD", sym.levelDiff, sym.entry.addr))
                ELSE gen
                : sym \in {findSymbol(rootTable, arg, gen.currentProc)} })

\* the operator code of an arithmetic or relational quadruple, 0 for any other op
OprCode(op) ==
    CASE op = "+" -> 2 [] op = "-" -> 3 [] op = "*" -> 4 [] op = "/" -> 5
      [] op = "=" -> 8 [] op = "<>" -> 9 [] op = "<" -> 10 [] op = ">=" -> 11
      [] op = ">" -> 12 [] op = "<=" -> 13 [] OTHER -> 0

\* the LABEL branch of pass 1
GenLabel(gen, rootTable, quad) ==
    LET g1 == [gen EXCEPT !.labelMap = (quad.result :> Len(gen.instructions)) @@ gen.labelMap]
    IN  IF startsWith(quad.result, "proc_")
        THEN Only({ Only({ emitIns([g1 EXCEPT !.currentProc = currentProc],
                                   NumIns("INT", 0,
                                          (IF currentProc = "Global" THEN rootTable.varOffset
                                           ELSE IF pEntry.found THEN pEntry.entry.size
                                           ELSE 3) + 100))
                           : pEntry \in {procMap(rootTable, currentProc)} })
                    : currentProc \in {IF RemoveFirst(quad.result, "proc_") = "main"
                                       THEN "Global"
                                       ELSE RemoveFirst(quad.result, "proc_")} })
        ELSE g1

\* the CALL branch of pass 1
GenCall(gen, rootTable, quad) ==
    Only({ Only({ IF JsLt(0, nargs) THEN emitIns(g1, NumIns("INT", 0, -nargs)) ELSE g1
                  : g1 \in {emitIns(gen, LabelIns("CAL",
                                                  IF targetSym.found THEN targetSym.levelDiff
                                                  ELSE 0,
                                                  quad.arg1))} })
           : targetSym \in {findSymbol(rootTable, RemoveFirst(quad.arg1, "proc_"),
                                       gen.currentProc)},
             nargs \in {parseInt(IF quad.arg2 # "" THEN quad.arg2 ELSE "0")} })

\* the body of the pass-1 loop for one quadruple
GenQuad(gen, rootTable, quad) ==
    CASE quad.op = "LABEL" -> GenLabel(gen, rootTable, quad)
      [] quad.op \in {"GOTO", "JMP"} ->
           emitIns(gen, LabelIns("JMP", 0, IF quad.result # "" THEN quad.result ELSE quad.arg1))
      [] quad.op = "JZ" ->
           emitIns(genOperand(gen, rootTable, quad.arg1), LabelIns("JPC", 0, quad.result))
      [] quad.op = "CALL" -> GenCall(gen, rootTable, quad)
      [] quad.op \in {"RET", "END"} -> emitIns(gen, NumIns("OPR", 0, 0))
      [] quad.op = "PARAM" -> genOperand(gen, rootTable, quad.arg1)
      [] quad.op = "READ" -> genStore(emitIns(gen, NumIns("OPR", 0, 16)), rootTable, quad.result)
      [] quad.op = "WRITE" ->
           emitIns(genOperand(gen, rootTable, quad.arg1), NumIns("WRT", 0, 0))
      [] quad.op = ":=" -> genStore(genOperand(gen, rootTable, quad.arg1), rootTable, quad.result)
      [] quad.op = "ODD" ->
           genStore(emitIns(genOperand(gen, rootTable, quad.arg1), NumIns("OPR", 0, 6)),
                    rootTable, quad.result)
      [] OprCode(quad.op) # 0 ->
           genStore(emitIns(genOperand(genOperand(gen, rootTable, quad.arg1), rootTable, quad.arg2),
                            NumIns("OPR", 0, OprCode(quad.op))),
                    rootTable, quad.result)
      [] OTHER -> gen

\* pass 1 over the quadruples tac[lo..hi]
RECURSIVE Pass1(_, _, _, _, _)
Pass1(gen, rootTable, tac, lo, hi) ==
    IF lo > hi THEN gen
    ELSE IF lo = hi THEN GenQuad(gen, rootTable, tac[lo])
    ELSE Only({ Pass1(g1, rootTable, tac, ((lo + hi) \div 2) + 1, hi)
                : g1 \in {Pass1(gen, rootTable, tac, lo, (lo + hi) \div 2)} })

\* pass 2 on one instruction: a label resolves to its position, an unknown one to 0
Resolve(labelMap, inst) ==
    IF inst.isLabel
    THEN Ins(inst.f, inst.l, IF inst.label \in DOMAIN labelMap THEN labelMap[inst.label] ELSE 0)
    ELSE Ins(inst.f, inst.l, inst.a)

\* TargetCodeGenerator.generate: the instructions, and the state pass 1 left
TargetGenerate(rootTable, tac) ==
    Only({ [instructions |-> [i \in 1..Len(gen.instructions) |->
                                 Resolve(gen.labelMap, gen.instructions[i])],
            labelMap |-> gen.labelMap,
            pass1 |-> gen.instructions]
           : gen \in {Pass1(TargetState, rootTable, tac, 1, Len(tac))} })

-----------------------------------------------------------------------------
(* The optimizer (Optimizer with the four passes optimizeLocalBasic,        *)
(* eliminateCommonSubexpressions, eliminateDeadCode, optimizeLoops).  The   *)
(* logs do not influence the code returned and are not kept.                *)

EmptyMap == [k \in {} |-> 0]

\* /^[a-zA-Z]/.test(s)
LetterFirst(s) == s # "" /\ IsLetter(SubSeq(s, 1, 1))

isTempOrVar(s) == s # "" /\ (startsWith(s, "T") \/ LetterFirst(s))

isVar(s) == s # "" /\ LetterFirst(s) /\ ~startsWith(s, "T")

\* the quadruples at which the local passes forget what they know
BlockBoundary(q) == q.op = "LABEL" \/ startsWith(q.op, "J") \/ q.op = "CALL" \/ q.op = "RET"

\* null, for a quadruple
NoQuad == Quadruple(-1, "", "", "", "")

applyAlgebraicSimplification(q) ==
    IF q.op = "+" /\ q.arg2 = "0" THEN [q EXCEPT !.op = ":=", !.arg2 = ""]
    ELSE IF q.op = "*" /\ q.arg2 = "1" THEN [q EXCEPT !.op = ":=", !.arg2 = ""]
    ELSE IF q.op = "*" /\ q.arg2 = "0" THEN [q EXCEPT !.op = ":=", !.arg1 = "0", !.arg2 = ""]
    ELSE IF q.op = "*" /\ q.arg2 = "2" THEN [q EXCEPT !.op = "+", !.arg2 = q.arg1]
    ELSE NoQuad

FoldableOps == {"+", "-", "*", "/", "ODD", "=", "<>", "<", "<=", ">", ">="}

\* the switch of the constant folding: the value, or Undef for null
FoldValue(op, v1, v2) ==
    CASE op = "+" -> v1 + v2
      [] op = "-" -> v1 - v2
      [] op = "*" -> v1 * v2
      [] op = "/" -> IF v2 # 0 THEN FloorDiv(v1, v2) ELSE Undef
      [] op = "ODD" -> JsRem(v1, 2)
      [] op = "=" -> Bit(v1 = v2)
      [] op = "<>" -> Bit(v1 # v2)
      [] op = "<" -> Bit(v1 < v2)
      [] op = "<=" -> Bit(v1 <= v2)
      [] op = ">" -> Bit(v1 > v2)
      [] op = ">=" -> Bit(v1 >= v2)

\* the constant folding of optimizeLocalBasic on one quadruple
FoldConstant(q) ==
    IF q.op \in FoldableOps
    THEN LET v1 == parseFloat(q.arg1)
             v2 == IF q.arg2 # "" THEN parseFloat(q.arg2) ELSE 0
         IN  IF v1 # NaN /\ (q.arg2 = "" \/ v2 # NaN) /\ FoldValue(q.op, v1, v2) # Undef
             THEN [q EXCEPT !.op = ":=", !.arg1 = toString(FoldValue(q.op, v1, v2)), !.arg2 = ""]
             ELSE q
    ELSE q

\* the constant propagation of optimizeLocalBasic on one quadruple
Propagate(constMap, q) ==
    LET a1 == IF q.arg1 # "" /\ q.arg1 \in DOMAIN constMap
              THEN toString(constMap[q.arg1]) ELSE q.arg1
        a2 == IF q.arg2 # "" /\ q.arg2 \in DOMAIN constMap
              THEN toString(constMap[q.arg2]) ELSE q.arg2
    IN  [q EXCEPT !.arg1 = a1, !.arg2 = a2]

\* the update of constMap after a quadruple
UpdateConstMap(constMap, q) ==
    IF q.op = ":=" /\ isTempOrVar(q.result)
    THEN IF parseFloat(q.arg1) # NaN
         THEN (q.result :> parseFloat(q.arg1)) @@ constMap
         ELSE [k \in (DOMAIN constMap) \ {q.result} |-> constMap[k]]
    ELSE constMap

\* one iteration of the loop of optimizeLocalBasic
LocalBasicStep(st, q) ==
    LET constMap == IF BlockBoundary(q) THEN EmptyMap ELSE st.constMap
    IN  IF q.op = "LABEL" THEN [constMap |-> constMap, code |-> Append(st.code, q)]
        ELSE Only({ Only({ [constMap |-> UpdateConstMap(constMap, q3),
                            code |-> Append(st.code, q3)]
                           : q3 \in {FoldConstant(IF applyAlgebraicSimplification(q1) # NoQuad
                                                  THEN applyAlgebraicSimplification(q1)
                                                  ELSE q1)} })
                    : q1 \in {Propagate(constMap, q)} })

RECURSIVE LocalBasicLoop(_, _, _, _)
LocalBasicLoop(st, tac, lo, hi) ==
    IF lo > hi THEN st
    ELSE IF lo = hi THEN LocalBasicStep(st, tac[lo])
    ELSE Only({ LocalBasicLoop(s1, tac, ((lo + hi) \div 2) + 1, hi)
                : s1 \in {LocalBasicLoop(st, tac, lo, (lo + hi) \div 2)} })

optimizeLocalBasic(tac) ==
    LocalBasicLoop([constMap |-> EmptyMap, code |-> <<>>], tac, 1, Len(tac)).code

\* the update of constMap in the Optimizer that follows temporaries only
UpdateTempConstMap(constMap, q) ==
    IF q.op = ":=" /\ startsWith(q.result, "T")
    THEN IF parseFloat(q.arg1) # NaN
         THEN (q.result :> parseFloat(q.arg1)) @@ constMap
         ELSE [k \in (DOMAIN constMap) \ {q.result} |-> constMap[k]]
    ELSE constMap

\* one iteration of the loop of optimizeLocal: the propagation, the identities and the
\* folding are those of optimizeLocalBasic
LocalStep(st, q) ==
    LET constMap == IF BlockBoundary(q) THEN EmptyMap ELSE st.constMap
    IN  IF q.op = "LABEL" THEN [constMap |-> constMap, code |-> Append(st.code, q)]
        ELSE Only({ Only({ [constMap |-> UpdateTempConstMap(constMap, q3),
                            code |-> Append(st.code, q3)]
                           : q3 \in {FoldConstant(IF applyAlgebraicSimplification(q1) # NoQuad
                                                  THEN applyAlgebraicSimplification(q1)
                                                  ELSE q1)} })
                    : q1 \in {Propagate(constMap, q)} })

RECURSIVE LocalLoop(_, _, _, _)
LocalLoop(st, tac, lo, hi) ==
    IF lo > hi THEN st
    ELSE IF lo = hi THEN LocalStep(st, tac[lo])
    ELSE Only({ LocalLoop(s1, tac, ((lo + hi) \div 2) + 1, hi)
                : s1 \in {LocalLoop(st, tac, lo, (lo + hi) \div 2)} })

\* optimizeLocal of the Optimizer whose passes are optimizeLocal and optimizeLoops
optimizeLocal(tac) ==
    LocalLoop([constMap |-> EmptyMap, code |-> <<>>], tac, 1, Len(tac)).code

CseOps == {"+", "-", "*", "/", "ODD", "=", "<", ">", "<=", ">=", "#"}

\* `${q.op},${q.arg1},${q.arg2}`
CseKey(q) == q.op \o "," \o q.arg1 \o "," \o q.arg2

\* one iteration of the loop of eliminateCommonSubexpressions
CseStep(st, q) ==
    IF BlockBoundary(q) THEN [exprMap |-> [k \in {} |-> ""], code |-> Append(st.code, q)]
    ELSE IF q.op \in CseOps
    THEN IF CseKey(q) \in DOMAIN st.exprMap /\ st.exprMap[CseKey(q)] # ""
         THEN [exprMap |-> st.exprMap,
               code |-> Append(st.code, [q EXCEPT !.op = ":=", !.arg1 = st.exprMap[CseKey(q)],
                                                  !.arg2 = ""])]
         ELSE [exprMap |-> (CseKey(q) :> q.result) @@ st.exprMap, code |-> Append(st.code, q)]
    ELSE [exprMap |-> st.exprMap, code |-> Append(st.code, q)]

RECURSIVE CseLoop(_, _, _, _)
CseLoop(st, tac, lo, hi) ==
    IF lo > hi THEN st
    ELSE IF lo = hi THEN CseStep(st, tac[lo])
    ELSE Only({ CseLoop(s1, tac, ((lo + hi) \div 2) + 1, hi)
                : s1 \in {CseLoop(st, tac, lo, (lo + hi) \div 2)} })

eliminateCommonSubexpressions(tac) ==
    CseLoop([exprMap |-> [k \in {} |-> ""], code |-> <<>>], tac, 1, Len(tac)).code

\* q assigns its result, for the dead code elimination
DceAssigns(q) ==
    /\ q.result # ""
    /\ ~startsWith(q.op, "J")
    /\ q.op \notin {"CALL", "READ", "WRITE", "LABEL"}

\* the arguments of q that become live
DceUses(q) ==
    {a \in {q.arg1, q.arg2} : a # "" /\ (startsWith(a, "T") \/ isVar(a))}

\* one iteration of the backward loop of eliminateDeadCode
DceStep(st, q) ==
    IF DceAssigns(q) /\ startsWith(q.result, "T") /\ q.result \notin st.liveVars
    THEN st
    ELSE [liveVars |-> (st.liveVars \ {q.result}) \cup DceUses(q), code |-> <<q>> \o st.code]

\* the iterations on tac[hi], tac[hi-1], ..., tac[lo]
RECURSIVE DceLoop(_, _, _, _)
DceLoop(st, tac, lo, hi) ==
    IF lo > hi THEN st
    ELSE IF lo = hi THEN DceStep(st, tac[lo])
    ELSE Only({ DceLoop(s1, tac, lo, (lo + hi) \div 2)
                : s1 \in {DceLoop(st, tac, ((lo + hi) \div 2) + 1, hi)} })

eliminateDeadCode(tac) == DceLoop([liveVars |-> {}, code |-> <<>>], tac, 1, Len(tac)).code

\* optimizeLoops of this optimizer finds the loops and writes log entries about their
\* induction variables; the code it returns is the code it was given
optimizeLoops(tac) == tac

\* the i-th smallest element of a set of numbers, and the set in ascending order
Nth(S, i) == CHOOSE x \in S : Cardinality({y \in S : y < x}) = i - 1
Ascending(S) == [i \in 1..Cardinality(S) |-> Nth(S, i)]

\* labelIndices[label] of optimizeLoops: the last LABEL of that name (positions from 1),
\* 0 for undefined
LabelIndex(tac, label) ==
    LET at == {i \in 1..Len(tac) : tac[i].op = "LABEL" /\ tac[i].result = label}
    IN  IF at = {} THEN 0 ELSE CHOOSE i \in at : \A j \in at : j <= i

\* the loops optimizeLoops finds: a JMP to a LABEL that stands before it, in the order of
\* the JMPs
LoopsOf(tac) ==
    LET ends == {i \in 1..Len(tac) : /\ tac[i].op = "JMP"
                                     /\ LabelIndex(tac, tac[i].result) # 0
                                     /\ LabelIndex(tac, tac[i].result) < i}
    IN  [n \in 1..Cardinality(ends) |->
            [start |-> LabelIndex(tac, tac[Nth(ends, n)].result), end |-> Nth(ends, n),
             label |-> tac[Nth(ends, n)].result]]

\* the positions optimizeLoops moves out of a loop of code: an operation whose result is
\* a temporary and whose arguments are numbers or are not results inside the loop
InvariantsOf(code, loop) ==
    LET definedInLoop == {code[k].result : k \in (loop.start + 1)..(loop.end - 1)} \ {""}
        inv(arg) == parseFloat(arg) # NaN \/ (arg # "" /\ arg \notin definedInLoop)
    IN  {k \in (loop.start + 1)..(loop.end - 1) :
            /\ code[k].op \in FoldableOps
            /\ startsWith(code[k].result, "T")
            /\ inv(code[k].arg1)
            /\ (code[k].arg2 = "" \/ inv(code[k].arg2))}

\* a motion that puts the invariants behind the LABEL of the loop
HoistBehindLabel(code, loop) ==
    LET invariants == InvariantsOf(code, loop)
        newBody == [i \in 1..(Len(code) - Cardinality(invariants)) |->
                       code[Nth((1..Len(code)) \ invariants, i)]]
        moved == [i \in 1..Cardinality(invariants) |-> code[Nth(invariants, i)]]
        labels == {i \in 1..Len(newBody) : newBody[i].op = "LABEL"
                                           /\ newBody[i].result = loop.label}
    IN  IF invariants = {} \/ labels = {} THEN code
        ELSE Only({ SubSeq(newBody, 1, at) \o moved \o SubSeq(newBody, at + 1, Len(newBody))
                    : at \in {Nth(labels, 1)} })

\* one iteration of the loop over the loops: the invariants are taken out and put
\* before the first LABEL of the loop's name
HoistLoop(code, loop) ==
    LET invariants == InvariantsOf(code, loop)
        newBody == [i \in 1..(Len(code) - Cardinality(invariants)) |->
                       code[Nth((1..Len(code)) \ invariants, i)]]
        moved == [i \in 1..Cardinality(invariants) |-> code[Nth(invariants, i)]]
        labels == {i \in 1..Len(newBody) : newBody[i].op = "LABEL"
                                           /\ newBody[i].result = loop.label}
    IN  IF invariants = {} \/ labels = {} THEN code
        ELSE Only({ SubSeq(newBody, 1, at - 1) \o moved \o SubSeq(newBody, at, Len(newBody))
                    : at \in {Nth(labels, 1)} })

RECURSIVE HoistLoops(_, _, _)
HoistLoops(code, loops, n) ==
    IF n > Len(loops) THEN code
    ELSE HoistLoops(HoistLoop(code, loops[n]), loops, n + 1)

\* optimizeLoops of the Optimizer that moves loop-invariant code
optimizeLoopsMotion(tac) == HoistLoops(tac, LoopsOf(tac), 1)

\* code.forEach((q, i) => q.id = i)
Reindex(code) == [i \in 1..Len(code) |-> [code[i] EXCEPT !.id = i - 1]]

\* Optimizer.optimize
optimize(tac) ==
    Reindex(optimizeLoops(eliminateDeadCode(eliminateCommonSubexpressions(
        optimizeLocalBasic(tac)))))

(* The quadruples are objects: optimize is given an array of references and *)
(* returns one.  objects holds the objects made so far, a reference is a    *)
(* position in it; given and returned are the two arrays, calls counts the  *)
(* optimize calls on the Optimizer and first keeps what its first call      *)
(* returned.  log() only appends to logs, which optimize empties when it    *)
(* starts and nothing reads: logs is not kept.                              *)

NoHeap == [objects |-> <<>>, given |-> <<>>, returned |-> <<>>, calls |-> 0, first |-> <<>>]

\* the quadruples an array of references shows
Deref(objects, refs) == [i \in 1..Len(refs) |-> objects[refs[i]]]

\* a statement that copies nothing: the reference itself
SpreadSame(objects, ref) == [objects |-> objects, ref |-> ref]

\* { ...q }: a new object with the fields of the object at ref
Spread(objects, ref) == [objects |-> Append(objects, objects[ref]), ref |-> Len(objects) + 1]

\* let q = { ...tac[i] } for i from lo to hi, each q then set to values[i] (by
\* assignments to its fields or by one more { ...q, ... }) and pushed
RECURSIVE CopyAndSet(_, _, _, _, _)
CopyAndSet(objects, refs, values, lo, hi) ==
    IF lo > hi THEN [objects |-> objects, refs |-> <<>>]
    ELSE IF lo = hi
    THEN Only({ [objects |-> [q.objects EXCEPT ![q.ref] = values[lo]], refs |-> <<q.ref>>]
                : q \in {Spread(objects, refs[lo])} })
    ELSE Only({ Only({ [objects |-> right.objects, refs |-> left.refs \o right.refs]
                       : right \in {CopyAndSet(left.objects, refs, values,
                                               ((lo + hi) \div 2) + 1, hi)} })
                : left \in {CopyAndSet(objects, refs, values, lo, (lo + hi) \div 2)} })

\* tac.map(q => ({ ...q }))
MapSpread(objects, refs) == CopyAndSet(objects, refs, Deref(objects, refs), 1, Len(refs))

\* a pass that copies each quadruple and pushes the copy, changed or not
CopyingPass(h, values) == CopyAndSet(h.objects, h.refs, values, 1, Len(h.refs))

\* the references a pass keeps or moves, of the quadruples it was given: each quadruple
\* is found again by the position it had
RefsOf(h, positions) == [objects |-> h.objects, refs |-> [i \in 1..Len(positions) |-> h.refs[positions[i]]]]

\* the quadruples at refs, their id set to their place
Positioned(quads) == [i \in 1..Len(quads) |-> [quads[i] EXCEPT !.id = i]]

\* the positions (from 1) a pass returned, read from the ids of Positioned quadruples
PlacesOf(quads) == [i \in 1..Len(quads) |-> quads[i].id]

\* code.forEach((q, i) => q.id = i): an object gets the last of its places
ReindexObjects(objects, refs) ==
    [r \in 1..Len(objects) |->
        LET at == {i \in 1..Len(refs) : refs[i] = r}
        IN  IF at = {} THEN objects[r]
            ELSE [objects[r] EXCEPT !.id = (CHOOSE i \in at : \A j \in at : j <= i) - 1]]

\* Optimizer.optimize on the objects: the array it returns, and the objects after it
OptimizeObjects(objects, given) ==
    Only({ [objects |-> ReindexObjects(h3.objects, h3.refs), refs |-> h3.refs]
           : h3 \in {Only({ RefsOf(h2, PlacesOf(optimizeLoops(eliminateDeadCode(
                                       Positioned(Deref(h2.objects, h2.refs))))))
                            : h2 \in {Only({ CopyingPass(h1, eliminateCommonSubexpressions(
                                                                 Deref(h1.objects, h1.refs)))
                                             : h1 \in {Only({ CopyingPass(h0, optimizeLocalBasic(
                                                                  Deref(h0.objects, h0.refs)))
                                                              : h0 \in {MapSpread(objects, given)} })} })} })} })

\* optimize of the Optimizer that moves loop-invariant code, on the objects
OptimizeMotionObjects(objects, given) ==
    Only({ [objects |-> ReindexObjects(h2.objects, h2.refs), refs |-> h2.refs]
           : h2 \in {Only({ RefsOf(h1, PlacesOf(optimizeLoopsMotion(
                                       Positioned(Deref(h1.objects, h1.refs)))))
                            : h1 \in {Only({ CopyingPass(h0, optimizeLocal(
                                                                 Deref(h0.objects, h0.refs)))
                                             : h0 \in {MapSpread(objects, given)} })} })} })

\* Optimizer.optimize of the Optimizer that moves loop-invariant code
optimizeMotion(tac) == Reindex(optimizeLoopsMotion(optimizeLocal(tac)))

-----------------------------------------------------------------------------
(* App.compile (src/App.tsx): the artifacts it stores, or the message of    *)
(* the error it caught.  The target code is generated from the quadruples   *)
(* of the generator, not from the optimized ones.                           *)

NoArtifacts ==
    [ok |-> FALSE, error |-> "", tokens |-> <<>>, ast |-> NullNode,
     symTable |-> SymbolTable("", 0), tac |-> <<>>, optimizedTac |-> <<>>,
     instructions |-> <<>>, labelMap |-> EmptyMap, pass1 |-> <<>>]

\* the stages after the parser, which throw nothing
compileAst(tokens, ast) ==
    Only({ Only({ Only({ [ok |-> TRUE, error |-> "", tokens |-> tokens, ast |-> ast,
                          symTable |-> symTable, tac |-> tac, optimizedTac |-> optimize(tac),
                          instructions |-> target.instructions, labelMap |-> target.labelMap,
                          pass1 |-> target.pass1]
                         : target \in {TargetGenerate(symTable, tac)} })
                  : tac \in {TACGenerate(ast, symTable)} })
           : symTable \in {SymGenerate(ast)} })

compile(code) ==
    Only({ IF ~lexed.ok THEN [NoArtifacts EXCEPT !.error = lexed.error]
           ELSE Only({ IF ~parsed.ok THEN [NoArtifacts EXCEPT !.error = parsed.error]
                       ELSE compileAst(lexed.tokens, parsed.ast)
                       : parsed \in {parse(lexed.tokens)} })
           : lexed \in {tokenize(code)} })

\* what a finished run showed: how it ended, the messages and the error
Outcome(how, out, err) == [how |-> how, out |-> out, err |-> err]
NoOutcome == Outcome("", <<>>, "")

-----------------------------------------------------------------------------
(* Bounds of the machine runs *)

MaxProgLen == 3     \* longest instruction list drawn from the alphabet
MaxSteps   == 40    \* instructions fetched per run
MaxRuns    == 2     \* run() calls per machine
MaxInput   == 1     \* inputs supplied are 0..MaxInput
MaxReads   == 2     \* input requests per machine
MaxAppSteps == 600  \* instructions fetched per run of a compiled program

\* the number of instructions a run may fetch
StepLimit == IF stage = "vm" THEN MaxSteps ELSE MaxAppSteps

\* the instructions the enumerated lists are made of
Alphabet ==
    { Ins("LIT", 0, 3), Ins("OPR", 0, 0), Ins("OPR", 0, 5), Ins("OPR", 0, 16),
      Ins("STO", 0, 1), Ins("CAL", 0, 0), Ins("CAL", 1, 2), Ins("INT", 0, -4),
      Ins("INT", 0, 1998), Ins("JMP", 0, 0), Ins("JPC", 0, 0), Ins("RED", 0, 3),
      Ins("WRT", 0, 0) }

RECURSIVE ListsUpTo(_, _)
ListsUpTo(S, n) ==
    IF n = 0 THEN {<<>>}
    ELSE LET shorter == ListsUpTo(S, n - 1)
         IN  shorter \cup {Append(l, x) : l \in {k \in shorter : Len(k) = n - 1}, x \in S}

\* a list that runs every operator code and every opcode once
ArithProgram ==
    << Ins("JMP", 0, 1), Ins("INT", 0, 5), Ins("LIT", 0, 7), Ins("LIT", 0, 2),
       Ins("OPR", 0, 5), Ins("OPR", 0, 1), Ins("LIT", 0, 3), Ins("OPR", 0, 2),
       Ins("LIT", 0, 5), Ins("OPR", 0, 4), Ins("LIT", 0, 1), Ins("OPR", 0, 3),
       Ins("OPR", 0, 6), Ins("LIT", 0, 1), Ins("OPR", 0, 8), Ins("LIT", 0, 0),
       Ins("OPR", 0, 9), Ins("LIT", 0, 2), Ins("OPR", 0, 10), Ins("LIT", 0, 1),
       Ins("OPR", 0, 11), Ins("LIT", 0, 0), Ins("OPR", 0, 12), Ins("LIT", 0, 1),
       Ins("OPR", 0, 13), Ins("STO", 0, 3), Ins("LOD", 0, 3), Ins("JPC", 0, 29),
       Ins("WRT", 0, 0), Ins("OPR", 0, 0) >>

\* a call with one argument whose callee reads it, calls a second level and returns
CallProgram ==
    << Ins("JMP", 0, 6), Ins("INT", 0, 3), Ins("LOD", 0, -1), Ins("WRT", 0, 0),
       Ins("LOD", 1, 3), Ins("OPR", 0, 0),
       Ins("INT", 0, 4), Ins("OPR", 0, 16), Ins("STO", 0, 3), Ins("LIT", 0, 9),
       Ins("CAL", 0, 1), Ins("INT", 0, -1), Ins("RED", 0, 3), Ins("LOD", 0, 3),
       Ins("WRT", 0, 0), Ins("OPR", 0, 0) >>

\* a list that reads a cell outside the array (LOD 0 -1) and keeps the undefined it gets as
\* its dynamic link, so that a later return leaves b, then t, undefined
StrayProgram ==
    << Ins("LIT", 0, 5), Ins("STO", 0, 2), Ins("LOD", 0, -1), Ins("STO", 0, 1),
       Ins("OPR", 0, 0), Ins("LIT", 0, 8), Ins("STO", 0, 1), Ins("OPR", 0, 0),
       Ins("CAL", 0, 9), Ins("OPR", 0, 0) >>

Programs ==
    (ListsUpTo(Alphabet, MaxProgLen) \ {<<>>}) \cup {ArithProgram, CallProgram, StrayProgram}

-----------------------------------------------------------------------------
(* run() as a state machine: one step per loop iteration, and one more for *)
(* the settlement of an awaited input.                                     *)

\* what is remembered of an instruction: the instruction, and the machine before its fetch
Snap(m, i) == [valid |-> TRUE, ins |-> i, p |-> m.p, b |-> m.b, t |-> m.t,
               stack |-> m.stack, len |-> m.len, out |-> m.out]

NoSnap == [valid |-> FALSE, ins |-> Ins("", 0, 0), p |-> 0, b |-> 0, t |-> 0,
           stack |-> NoCells, len |-> 0, out |-> <<>>]

\* const i = this.instructions[this.p] (p is an integer here: the guard held)
Fetched == IF p >= 0 THEN instructions[p + 1] ELSE Ins("undefined", 0, 0)

\* the machine's fields after a loop iteration or a settlement that ended with m
SetMachine(m) ==
    /\ stack' = m.stack
    /\ stackLen' = m.len
    /\ p' = m.p
    /\ b' = m.b
    /\ t' = m.t
    /\ error' = m.err

\* the end of an iteration whose switch left m: a throw, the break, or the next iteration
EndIteration(m) ==
    IF m.err # ""
    THEN pc' = "error" /\ output' = m.out
    ELSE IF BreakAtZero(m)
    THEN pc' = "halted" /\ output' = Append(m.out, MsgDone)
    ELSE pc' = "running" /\ output' = m.out

VMInit ==
    /\ instructions \in Programs
    /\ stack = NoCells
    /\ stackLen = StackSize
    /\ filled = StackSize
    /\ p = 0 /\ b = 0 /\ t = 0
    /\ pc = "idle"
    /\ output = <<>>
    /\ error = ""
    /\ requests = 0 /\ responses = 0
    /\ steps = 0 /\ runs = 0
    /\ cur = NoSnap /\ prev = NoSnap
    /\ source = "" /\ feed = <<>>
    /\ artifacts = NoArtifacts
    /\ stage = "vm"
    /\ firstRun = NoOutcome
    /\ tacGen = TACState
    /\ quadHeap = NoHeap

\* run() is called: lines 28-33.  The App makes a new machine for every run and calls
\* run() on it once (App.tsx 588-599); a further call is taken only after the run has ended.
Run ==
    /\ pc \in {"idle", "halted", "error"}
    /\ runs < MaxRuns
    /\ runs' = runs + 1
    /\ stack' = Fill0(stack)
    /\ filled' = stackLen
    /\ p' = 0 /\ b' = 0 /\ t' = 3
    /\ pc' = "running"
    /\ output' = <<>>
    /\ error' = ""
    /\ steps' = 0
    /\ cur' = NoSnap /\ prev' = NoSnap
    /\ firstRun' = IF runs = 0 THEN NoOutcome ELSE Outcome(pc, output, error)
    /\ UNCHANGED <<instructions, stackLen, requests, responses>>
    /\ UNCHANGED <<source, feed, artifacts, stage, tacGen, quadHeap>>

\* one loop iteration on an instruction that does not await
Step ==
    /\ pc = "running"
    /\ steps < StepLimit
    /\ LoopGuard(Machine, instructions)
    /\ ~IsRead(Fetched)
    /\ \E m2 \in { IF p < 0 THEN Throw([Machine EXCEPT !.p = JsAdd(p, 1)], ErrType)
                    ELSE Exec([Machine EXCEPT !.p = JsAdd(p, 1)], Fetched) } :
          /\ SetMachine(m2)
          /\ EndIteration(m2)
    /\ cur' = Snap(Machine, Fetched)
    /\ prev' = cur
    /\ steps' = steps + 1
    /\ UNCHANGED <<instructions, filled, requests, responses, runs>>
    /\ UNCHANGED appVars

\* a loop iteration on OPR 16 or RED, up to the await
Request ==
    /\ pc = "running"
    /\ steps < StepLimit
    /\ LoopGuard(Machine, instructions)
    /\ IsRead(Fetched)
    /\ requests < MaxReads
    /\ \E m1 \in { BeforeAwait([Machine EXCEPT !.p = JsAdd(p, 1)]) } :
          /\ SetMachine(m1)
          /\ output' = m1.out
    /\ cur' = Snap(Machine, Fetched)
    /\ prev' = cur
    /\ pc' = "awaiting"
    /\ requests' = requests + 1
    /\ steps' = steps + 1
    /\ UNCHANGED <<instructions, filled, responses, runs>>
    /\ UNCHANGED appVars

\* the awaited promise resolves with val: the rest of the iteration
Provide(val) ==
    /\ pc = "awaiting"
    /\ \E m1 \in { AfterAwait(Machine, cur.ins, val) } :
          /\ SetMachine(m1)
          /\ EndIteration(m1)
    /\ responses' = responses + 1
    /\ UNCHANGED <<instructions, filled, requests, steps, runs, cur, prev>>
    /\ UNCHANGED appVars

\* the awaited promise rejects: run() throws at the await
Cancel ==
    /\ pc = "awaiting"
    /\ pc' = "error"
    /\ error' = ErrRejected
    /\ responses' = responses + 1
    /\ UNCHANGED <<instructions, stack, stackLen, filled, p, b, t, output,
                   requests, steps, runs, cur, prev>>
    /\ UNCHANGED appVars

\* the loop guard fails: line 152
Finish ==
    /\ pc = "running"
    /\ ~LoopGuard(Machine, instructions)
    /\ pc' = "halted"
    /\ output' = Append(output, MsgDone)
    /\ UNCHANGED <<instructions, stack, stackLen, filled, p, b, t, error,
                   requests, responses, steps, runs, cur, prev>>
    /\ UNCHANGED appVars

VMNext ==
    \/ Run
    \/ Step
    \/ Request
    \/ \E val \in 0..MaxInput : Provide(val)
    \/ Cancel
    \/ Finish

vars == <<vmVars, appVars>>

Init == VMInit

Next == VMNext

Spec == Init /\ [][Next]_vars

-----------------------------------------------------------------------------
(* The App (src/App.tsx): the source in the editor is compiled and the      *)
(* generated code is run on a new machine, its input typed by the user.     *)
(* To compare the optimizer's output with its input, the code generated     *)
(* from the optimized quadruples is then run on a new machine with the same *)
(* input.                                                                   *)

\* the classic program: multiplication by doubling and halving
ClassicSource ==
    "program classic;\nconst m := 7, n := 85;\nvar x, y, z;\n"
    \o "procedure multiply(a, b);\nbegin\n  z := 0;\n  while b > 0 do\n  begin\n"
    \o "    if odd b then z := z + a;\n    a := 2 * a;\n    b := b / 2\n  end\nend;\n"
    \o "begin\n  x := m;\n  y := n;\n  call multiply(x, y);\n  write(z)\nend."

\* a division by zero whose quotient is multiplied by 0
DivZeroSource == "program d; begin write((1 / 0) * 0) end."

\* a call of a procedure that is not declared
NoProcSource == "program c; begin call foo; write(1) end."

\* an assignment to, and a use of, names that are not declared
NoVarSource == "program u; var a; begin x := 1; a := y + 2; write(a) end."

\* two reads, a comparison and both branches of an if
ReadSource ==
    "program r; var a, b;\nbegin read(a, b);\n"
    \o "if a < b then write(b - a) else write(a * 2 + b, a / 1) end."

\* a loop whose length is read, inside a procedure that uses a global and a local
LoopSource ==
    "program l; var s;\nprocedure sum(); var i;\n"
    \o "begin read(i); while i > 0 do begin s := s + i * 1; i := i - 1 end end;\n"
    \o "begin s := 0; call sum(); write(s + 0) end."

\* a character the lexer does not know, and a statement the parser does not accept
BadCharSource == "program b; var a;\nbegin a := 1 # 2 end."
BadSyntaxSource == "program s; begin write(1); 2 := 3 end."

\* ten assignments from a name that is not declared: each pops one more cell than it pushed
PopsBlock ==
    "begin x:=y; x:=y; x:=y; x:=y; x:=y; x:=y; x:=y; x:=y; x:=y; x:=y end;\n"

\* 106 such assignments bring t from 107 down to 1, so that the frame of the call lies on
\* the cells 1..3 and the callee's store to the global x replaces its return address
RunOffSource ==
    "program f; var x;\nprocedure p(); begin x := 999 end;\nbegin\n"
    \o PopsBlock \o PopsBlock \o PopsBlock \o PopsBlock \o PopsBlock
    \o PopsBlock \o PopsBlock \o PopsBlock \o PopsBlock \o PopsBlock
    \o "x:=y; x:=y; x:=y; x:=y; x:=y; x:=y;\ncall p; write(x) end."

Sources ==
    {ClassicSource, DivZeroSource, NoProcSource, NoVarSource, ReadSource, LoopSource,
     BadCharSource, BadSyntaxSource, RunOffSource}

\* the inputs typed: MaxReads numbers among 0..MaxInput, rising from a first one
Feeds == {[i \in 1..MaxReads |-> (k + i) % (MaxInput + 1)] : k \in 0..MaxInput}

AppInit ==
    /\ instructions = <<>>
    /\ stack = NoCells
    /\ stackLen = StackSize
    /\ filled = StackSize
    /\ p = 0 /\ b = 0 /\ t = 0
    /\ pc = "idle"
    /\ output = <<>>
    /\ error = ""
    /\ requests = 0 /\ responses = 0
    /\ steps = 0 /\ runs = 0
    /\ cur = NoSnap /\ prev = NoSnap
    /\ source \in Sources
    /\ feed \in Feeds
    /\ artifacts = NoArtifacts
    /\ stage = "edit"
    /\ firstRun = NoOutcome
    /\ tacGen = TACState
    /\ quadHeap = NoHeap

\* new VirtualMachine(ins) followed by the start of its run()
NewMachineRun(ins) ==
    /\ instructions' = ins
    /\ stack' = NoCells
    /\ stackLen' = StackSize
    /\ filled' = StackSize
    /\ p' = 0 /\ b' = 0 /\ t' = 3
    /\ pc' = "running"
    /\ output' = <<>>
    /\ error' = ""
    /\ requests' = 0 /\ responses' = 0
    /\ steps' = 0 /\ runs' = 1
    /\ cur' = NoSnap /\ prev' = NoSnap

\* the compile button
Compile ==
    /\ stage = "edit"
    /\ artifacts' = compile(source)
    /\ stage' = IF artifacts'.ok THEN "compiled" ELSE "failed"
    /\ UNCHANGED <<vmVars, source, feed, firstRun, tacGen, quadHeap>>

\* the run button: compile(), then a new machine runs the instructions
AppRun ==
    /\ stage \in {"edit", "compiled"}
    /\ artifacts' = compile(source)
    /\ IF artifacts'.ok
       THEN /\ stage' = "original"
            /\ NewMachineRun(artifacts'.instructions)
       ELSE /\ stage' = "failed"
            /\ UNCHANGED vmVars
    /\ UNCHANGED <<source, feed, firstRun, tacGen, quadHeap>>

\* the user types the next number of the feed
Type ==
    /\ stage \in {"original", "optimized"}
    /\ responses < Len(feed)
    /\ Provide(feed[responses + 1])

\* the written values of a run, and whether it ended by an error
Observed(how, out) ==
    [values |-> SelectSeq(out, LAMBDA msg : msg.text = "value"), failed |-> how = "error"]

\* once the generated code has run, the code generated from the optimized quadruples runs
RunOptimized ==
    /\ stage = "original"
    /\ pc \in {"halted", "error"}
    /\ firstRun' = Outcome(pc, output, error)
    /\ stage' = "optimized"
    /\ NewMachineRun(TargetGenerate(artifacts.symTable, artifacts.optimizedTac).instructions)
    /\ UNCHANGED <<source, feed, artifacts, tacGen, quadHeap>>

AppNext ==
    \/ Compile
    \/ AppRun
    \/ Step
    \/ Request
    \/ Type
    \/ Finish
    \/ RunOptimized

SpecApp == AppInit /\ [][AppNext]_vars

-----------------------------------------------------------------------------
(* Claims about the virtual machine *)

\* the last two instructions executed were a CAL and, at its target, an OPR 0
CalThenRet ==
    /\ pc \in {"running", "halted"}
    /\ cur.valid /\ prev.valid
    /\ prev.ins.f = "CAL"
    /\ cur.ins.f = "OPR" /\ cur.ins.a = 0
    /\ cur.p = prev.ins.a

\* C1: after a CAL immediately followed by the callee's OPR 0, b and p have their
\* pre-call values (p the index after the CAL) and t its value before the CAL.
C1_FrameRestored ==
    CalThenRet => (b = prev.b /\ p = prev.p + 1 /\ t = prev.t)

\* C2: a division by zero raises a runtime error and leaves every stack cell and t
\* as they were before the faulting instruction was fetched.
C2_DivZeroNoMutation ==
    (pc = "error" /\ error = ErrDivZero) => (t = cur.t /\ stack = cur.stack)

\* the instruction an outstanding request belongs to is OPR 16 or RED
ReadInstr(i) == (i.f = "OPR" /\ i.a = 16) \/ i.f = "RED"

\* C5, state part: a request is outstanding exactly while run() awaits, there is at most
\* one, and the instruction that issued it is OPR 16 or RED.
C5_OneRequest ==
    /\ requests - responses \in {0, 1}
    /\ (requests - responses = 1) <=> (pc = "awaiting")
    /\ pc = "awaiting" => (cur.valid /\ ReadInstr(cur.ins))

\* C5, step part: a request is issued only by a step that fetches OPR 16 or RED, and while
\* a request is outstanding the only steps are its settlement: no instruction is fetched
\* and p, b, t and the stack do not change before the value is received.
C5_StepRule ==
    /\ requests' # requests =>
          (requests' = requests + 1 /\ pc' = "awaiting" /\ ReadInstr(cur'.ins))
    /\ (pc = "awaiting" /\ responses' = responses) =>
          (steps' = steps /\ UNCHANGED <<p, b, t, stack, stackLen, pc>>)
    /\ (pc = "awaiting" /\ pc' = "awaiting") => UNCHANGED <<p, b, t, stack, stackLen, steps>>
    /\ (pc = "awaiting" /\ responses' # responses) => steps' = steps

\* C5: input requests are issued only by OPR 16 / RED, at most one is outstanding, and the
\* machine does not advance between the request and its value.
C5_SingleSuspension == [](C5_OneRequest) /\ [][C5_StepRule]_vars

\* a second request is outstanding, issued by RED, after a first one was answered
C5_Witness == pc = "awaiting" /\ cur.ins.f = "RED" /\ responses = 1 /\ steps >= 2

\* C6: after a cancelled input request run() has aborted and p, b, t and the stack are
\* what they were before the read instruction was fetched.
C6_CancelRestores ==
    (pc = "error" /\ error = ErrRejected) =>
        (p = cur.p /\ b = cur.b /\ t = cur.t /\ stack = cur.stack)

\* C7: while a run proceeds or after it halted normally, t is within 0..2000 and no cell
\* outside the array was written: leaving the range is an error.
C7_StackBounds ==
    pc \in {"running", "awaiting", "halted"} =>
        /\ IsNum(t) /\ t >= 0 /\ t <= StackSize
        /\ \A k \in DOMAIN stack : IsNum(k) /\ k >= 0 /\ k < StackSize

\* C10: run() has stopped fetching only because p is at or beyond the instruction count,
\* or because the last instruction was an OPR 0 executed in the outermost frame.
C10_HaltCauses ==
    pc = "halted" =>
        \/ JsLe(Len(instructions), p)
        \/ (cur.valid /\ cur.ins.f = "OPR" /\ cur.ins.a = 0 /\ cur.b = 0)

-----------------------------------------------------------------------------
(* Claims about the compiler and the App *)

\* a CALL quadruple lies between a LABEL and a later jump back to that LABEL
CallInLoop(tac) ==
    \E i \in 1..Len(tac), j \in 1..Len(tac), k \in 1..Len(tac) :
        /\ i < k /\ k < j
        /\ tac[i].op = "LABEL"
        /\ tac[j].op \in {"GOTO", "JMP"} /\ tac[j].result = tac[i].result
        /\ tac[k].op = "CALL"

\* the run of the code generated from the optimized quadruples has ended
OptimizedRunEnded == stage = "optimized" /\ pc \in {"halted", "error"}

\* C3: for a program with no procedure call inside a loop, the code generated from the
\* optimized quadruples writes the same values as the code generated from the original
\* quadruples, on the same input, and ends by a runtime error exactly when that one does.
C3_OptimizerSound ==
    (OptimizedRunEnded /\ ~CallInLoop(artifacts.tac)) =>
        Observed(pc, output) = Observed(firstRun.how, firstRun.out)

\* the classic program is running, or has run, on the machine the run button made
ClassicRun == source = ClassicSource /\ stage = "original"

\* what the classic program shows: the product, then the completion line
ClassicOutput == <<MsgValue(595), MsgDone>>

\* the classic program compiles, its constants are 7 and 85 and the parameters of multiply
\* are at -2 and -1; its run raises no error and shows nothing but a prefix of its output
ClassicSafe ==
    ClassicRun =>
        /\ artifacts.ok
        /\ findSymbol(artifacts.symTable, "m", "Global").entry.valLevel = 7
        /\ findSymbol(artifacts.symTable, "n", "Global").entry.valLevel = 85
        /\ findSymbol(artifacts.symTable, "a", "multiply").entry.addr = -2
        /\ findSymbol(artifacts.symTable, "b", "multiply").entry.addr = -1
        /\ pc \in {"running", "halted"}
        /\ Len(output) <= Len(ClassicOutput)
        /\ output = SubSeq(ClassicOutput, 1, Len(output))
        /\ pc = "halted" => output = ClassicOutput

\* the run loop is one asynchronous function: an iteration that can be made is made
FairSpecApp == SpecApp /\ WF_vars(Step)

\* C4: the whole pipeline on the classic program terminates, and what it writes before the
\* completion line is exactly 595.
C4_ClassicWrites595 ==
    /\ [](ClassicSafe)
    /\ ClassicRun ~> (ClassicRun /\ pc = "halted" /\ output = ClassicOutput)

\* the classic program has run to its end and shown 595 and the completion line
C4_Witness ==
    /\ ClassicRun /\ pc = "halted" /\ steps > 100
    /\ output = <<MsgValue(595), MsgDone>>
    /\ cur.ins = Ins("OPR", 0, 0)

\* C8: when the generator returns an instruction list, every symbolic label that pass 1
\* put on a JMP, JPC or CAL is in the label map: none was replaced by a default address.
C8_UnresolvedLabelFatal ==
    artifacts.ok =>
        \A i \in 1..Len(artifacts.pass1) :
            artifacts.pass1[i].isLabel => artifacts.pass1[i].label \in DOMAIN artifacts.labelMap

\* currentProc while pass 1 handles the i-th quadruple: set by the last LABEL proc_* before
ScopeAt(tac, i) ==
    LET at == {j \in 1..(i - 1) : tac[j].op = "LABEL" /\ startsWith(tac[j].result, "proc_")}
    IN  IF at = {} THEN "Global"
        ELSE LET name == RemoveFirst(tac[CHOOSE j \in at : \A k \in at : k <= j].result, "proc_")
             IN  IF name = "main" THEN "Global" ELSE name

\* the fields of a quadruple that pass 1 hands to genOperand, and the one it hands to genStore
OperandsOf(q) ==
    IF q.op \in {"JZ", "PARAM", "WRITE", ":=", "ODD"} THEN {q.arg1}
    ELSE IF OprCode(q.op) # 0 THEN {q.arg1, q.arg2}
    ELSE {}

StoresOf(q) ==
    IF q.op \in {"READ", ":=", "ODD"} \/ OprCode(q.op) # 0 THEN {q.result} ELSE {}

\* a name that is neither a temporary nor a number, and that no table on the scope stack
\* declares
Undeclared(rootTable, name, scopeName) ==
    /\ name # ""
    /\ parseFloat(name) = NaN
    /\ ~startsWith(name, "T")
    /\ ~findSymbol(rootTable, name, scopeName).found

\* C9: when the generator returns an instruction list, no quadruple it was given has an
\* operand or a result that is an undeclared name: such a name is an error.
C9_UndeclaredRejected ==
    artifacts.ok =>
        \A i \in 1..Len(artifacts.tac) :
            \A name \in OperandsOf(artifacts.tac[i]) \cup StoresOf(artifacts.tac[i]) :
                ~Undeclared(artifacts.symTable, name, ScopeAt(artifacts.tac, i))

-----------------------------------------------------------------------------
(* Claims about a machine that runs again *)

\* a later run() of a machine has just started
RestartedRun == stage = "vm" /\ runs >= 2 /\ pc = "running" /\ steps = 0

\* a later run() of a machine has ended, no input having been supplied to the machine
RerunEnded == stage = "vm" /\ runs >= 2 /\ pc \in {"halted", "error"} /\ responses = 0

\* C11: a later run() of a machine starts from p = 0, b = 0, t = 3 and a stack of which no
\* cell written earlier holds anything but 0, and, given the same inputs (none), ends as the run before it ended.
C11_CleanRestart ==
    /\ RestartedRun => (p = 0 /\ b = 0 /\ t = 3 /\ \A k \in DOMAIN stack : stack[k] = 0)
    /\ RerunEnded => Outcome(pc, output, error) = firstRun

-----------------------------------------------------------------------------
(* The symbol table generator on its own: a program of declarations is      *)
(* drawn, and generate() builds its table.                                   *)

MaxVars == 3        \* variables declared in a block
MaxParams == 2      \* parameters of a procedure
MaxProcs == 2       \* procedures declared in the main block

VarNames == <<"a", "b", "c", "d">>
ParamNames == <<"x", "y", "z">>
ProcNames == <<"p", "q", "r">>

\* begin write(1) end
PlainBody == BodyNode(<<WriteNode(<<NumNode(1)>>)>>)

\* var a, b, ...: the first n names, no node for n = 0
VarDeclOf(n) == IF n = 0 THEN NullNode ELSE VarDeclNode(SubSeq(VarNames, 1, n))

\* a procedure with n parameters and m variables, which declares the procedures inner
ProcOf(name, n, m, inner) ==
    ProcNode(name, SubSeq(ParamNames, 1, n), BlockNode(NullNode, VarDeclOf(m), inner, PlainBody))

\* procedures that declare none, and procedures that declare one of those
LeafProcs(name) == {ProcOf(name, n, m, <<>>) : n \in 0..MaxParams, m \in 0..MaxVars}
Procs(name) ==
    LeafProcs(name) \cup {ProcOf(name, n, 1, <<ProcOf("r", k, 2, <<>>)>>) : n, k \in 0..MaxParams}

\* the lists of at most MaxProcs procedures, the i-th named ProcNames[i]: any procedure
\* first, then procedures of one variable that declare none
RECURSIVE ProcLists(_)
ProcLists(n) ==
    IF n = 0 THEN {<<>>}
    ELSE ProcLists(n - 1) \cup
         {Append(l, pr) : l \in {k \in ProcLists(n - 1) : Len(k) = n - 1},
                          pr \in IF n = 1 THEN Procs(ProcNames[n])
                                 ELSE {ProcOf(ProcNames[n], k, 1, <<>>) : k \in 0..MaxParams}}

DeclPrograms ==
    {ProgramNode("m", BlockNode(NullNode, VarDeclOf(g), procs, PlainBody))
        : g \in 0..MaxVars, procs \in ProcLists(MaxProcs)}

SymInit ==
    /\ instructions = <<>>
    /\ stack = NoCells
    /\ stackLen = StackSize
    /\ filled = StackSize
    /\ p = 0 /\ b = 0 /\ t = 0
    /\ pc = "idle"
    /\ output = <<>>
    /\ error = ""
    /\ requests = 0 /\ responses = 0
    /\ steps = 0 /\ runs = 0
    /\ cur = NoSnap /\ prev = NoSnap
    /\ source = "" /\ feed = <<>>
    /\ artifacts \in {[NoArtifacts EXCEPT !.ast = ast] : ast \in DeclPrograms}
    /\ stage = "ast"
    /\ firstRun = NoOutcome
    /\ tacGen = TACState
    /\ quadHeap = NoHeap

\* new SymbolTableGenerator().generate(ast)
BuildTable ==
    /\ stage = "ast"
    /\ artifacts' = [artifacts EXCEPT !.symTable = SymGenerate(artifacts.ast)]
    /\ stage' = "table"
    /\ UNCHANGED <<vmVars, source, feed, firstRun, tacGen, quadHeap>>

SpecSym == SymInit /\ [][BuildTable]_vars

\* the variable entries of a table, in the order they were added
VariablesOf(table) == SelectSeq(table.entries, LAMBDA e : e.kind = "variable")

\* the procedure entries of a table, in the order they were added
ProceduresOf(table) == SelectSeq(table.entries, LAMBDA e : e.kind = "procedure")

\* in the table of a block whose procedure has n parameters and which declares the
\* variables vs: the i-th parameter is at -(n-i+1), the k-th variable at 2+k, all at the
\* table's level, and so on in the tables of the procedures the block declares
RECURSIVE OffsetsOk(_, _, _)
OffsetsOk(table, params, block) ==
    LET n  == Len(params)
        vs == IF block.varDecl = NullNode THEN <<>> ELSE block.varDecl.vars
        es == VariablesOf(table)
    IN  /\ Len(es) = n + Len(vs)
        /\ \A i \in 1..n :
              es[i] = SymbolEntry(params[i], "variable", table.level, -(n - i + 1), 1, 0)
        /\ \A k \in 1..Len(vs) :
              es[n + k] = SymbolEntry(vs[k], "variable", table.level, 2 + k, 1, 0)
        /\ Len(table.children) = Len(block.procs)
        /\ \A j \in 1..Len(block.procs) :
              /\ table.children[j].level = table.level + 1
              /\ OffsetsOk(table.children[j], block.procs[j].params, block.procs[j].block)

\* C12: in every scope the k-th declared variable is at offset 2+k and the i-th of n
\* parameters at -(n-i+1), each at the level of its scope (0 for the main block);
\* parameters take no local offset.
C12_Offsets ==
    stage = "table" =>
        /\ artifacts.symTable.level = 0
        /\ OffsetsOk(artifacts.symTable, <<>>, artifacts.ast.block)

\* a table of three global variables and a procedure of two parameters and a variable,
\* which declares a procedure of two parameters
C12_Witness ==
    /\ stage = "table"
    /\ Len(VariablesOf(artifacts.symTable)) = 3
    /\ [i \in 1..3 |-> VariablesOf(artifacts.symTable)[i].addr] = <<3, 4, 5>>
    /\ Len(artifacts.symTable.children) >= 1
    /\ Len(VariablesOf(artifacts.symTable.children[1])) = 3
    /\ [i \in 1..3 |-> VariablesOf(artifacts.symTable.children[1])[i].addr] = <<-2, -1, 3>>
    /\ Len(artifacts.symTable.children[1].children) = 1
    /\ Len(VariablesOf(artifacts.symTable.children[1].children[1])) = 4

-----------------------------------------------------------------------------
(* The three-address code generator on its own: a TACGenerator is made for  *)
(* the table of a program, and generate() is called on it, then once more.  *)

\* the programs of declarations, and the programs of the App that parse
TacPrograms ==
    DeclPrograms \cup {compile(src).ast : src \in {x \in Sources : compile(x).ok}}

TacInit ==
    /\ instructions = <<>>
    /\ stack = NoCells
    /\ stackLen = StackSize
    /\ filled = StackSize
    /\ p = 0 /\ b = 0 /\ t = 0
    /\ pc = "idle"
    /\ output = <<>>
    /\ error = ""
    /\ requests = 0 /\ responses = 0
    /\ steps = 0 /\ runs = 0
    /\ cur = NoSnap /\ prev = NoSnap
    /\ source = "" /\ feed = <<>>
    /\ artifacts \in {[NoArtifacts EXCEPT !.ast = ast, !.symTable = SymGenerate(ast)]
                        : ast \in TacPrograms}
    /\ stage = "new"
    /\ firstRun = NoOutcome
    /\ tacGen = TACState
    /\ quadHeap = NoHeap

\* tacGen.generate(ast), and the code is kept as the App keeps it
Generate ==
    /\ stage = "new"
    /\ tacGen' = GenerateOn(tacGen, artifacts.ast, artifacts.symTable)
    /\ artifacts' = [artifacts EXCEPT !.tac = tacGen'.code]
    /\ stage' = "generated"
    /\ UNCHANGED <<vmVars, source, feed, firstRun, quadHeap>>

\* tacGen.generate(ast) once more, on the same generator
Regenerate ==
    /\ stage = "generated"
    /\ tacGen' = GenerateOn(tacGen, artifacts.ast, artifacts.symTable)
    /\ stage' = "regenerated"
    /\ UNCHANGED <<vmVars, source, feed, firstRun, artifacts, quadHeap>>

TacNext == Generate \/ Regenerate

SpecTac == TacInit /\ [][TacNext]_vars

\* C13: the quadruples of a second generate() on the same generator are those of the
\* first: the same ops, operands, temporaries and labels.
C13_SameCodeAgain ==
    stage = "regenerated" => tacGen.code = artifacts.tac

-----------------------------------------------------------------------------
(* The lexer and the parser on their own: a source text is tokenized, and   *)
(* the tokens, if there are any, are parsed.  The texts are small programs  *)
(* put together from parts, and every string over a few characters up to a  *)
(* length.                                                                  *)

MaxSrcLen == 3

Heads == {"", "program p; "}
Decls == {"", "var x; ", "var x, y;\n", "const c := 1; var x;\n"}
Bodies ==
    {"begin x := 1; write(x) end", "begin write(x); x := 1 end", "begin x := 1 end",
     "begin write(x) end", "begin x := 1;\nif x <> 1 then write(x) end",
     "begin x := 1;\nif x # 1 then write(x) end", "begin read(x); write(x + 1, x) end"}
Tails == {".", ""}

\* bodies the parser does not accept: a number where a statement starts, a condition
\* with no relational operator, an operator where a factor starts, a body that stops
\* after then
BadBodies ==
    {"begin write(1);\n2 := 3 end", "begin x := 1;\nif x then write(x) end",
     "begin x := * 2 end", "begin x := 1;\nif x < 2 then"}

\* a block followed by '.', and the same after the heading program p;
PartPrograms ==
    {h \o d \o bd \o tl : h \in Heads, d \in Decls, bd \in Bodies \cup BadBodies, tl \in Tails}

\* the characters the strings are made of: a letter, a digit, a blank, a newline, the
\* two halves of ':=' and two characters that are in no class
LexChars == {"a", "1", " ", "\n", ":", "=", "$", "#"}

RECURSIVE StringsUpTo(_, _)
StringsUpTo(S, n) ==
    IF n = 0 THEN {""}
    ELSE LET shorter == StringsUpTo(S, n - 1)
         IN  shorter \cup {l \o x : l \in {k \in shorter : Len(k) = n - 1}, x \in S}

FrontSources == PartPrograms \cup StringsUpTo(LexChars, MaxSrcLen)

FrontInit ==
    /\ instructions = <<>>
    /\ stack = NoCells
    /\ stackLen = StackSize
    /\ filled = StackSize
    /\ p = 0 /\ b = 0 /\ t = 0
    /\ pc = "idle"
    /\ output = <<>>
    /\ error = ""
    /\ requests = 0 /\ responses = 0
    /\ steps = 0 /\ runs = 0
    /\ cur = NoSnap /\ prev = NoSnap
    /\ source \in FrontSources
    /\ feed = <<>>
    /\ artifacts = NoArtifacts
    /\ stage = "edit"
    /\ firstRun = NoOutcome
    /\ tacGen = TACState
    /\ quadHeap = NoHeap

\* new Lexer(source).tokenize(): the tokens are returned, or an error is thrown
Tokenize ==
    /\ stage = "edit"
    /\ \E lexed \in {tokenize(source)} :
          /\ artifacts' = [NoArtifacts EXCEPT !.tokens = lexed.tokens, !.error = lexed.error]
          /\ stage' = IF lexed.ok THEN "lexed" ELSE "lexicalError"
    /\ UNCHANGED <<vmVars, source, feed, firstRun, tacGen, quadHeap>>

\* new Parser(tokens).parse(): the program node is returned, or an error is thrown
Parse ==
    /\ stage = "lexed"
    /\ \E parsed \in {parse(artifacts.tokens)} :
          /\ artifacts' = [artifacts EXCEPT !.ast = parsed.ast, !.error = parsed.error]
          /\ stage' = IF parsed.ok THEN "parsed" ELSE "syntaxError"
    /\ UNCHANGED <<vmVars, source, feed, firstRun, tacGen, quadHeap>>

FrontNext == Tokenize \/ Parse

SpecFront == FrontInit /\ [][FrontNext]_vars

\* the minimal program of the parser's round trip
MinimalSource == "var x; begin x := 1; write(x) end."

\* a block followed by '.', with the operators the lexer knows
BlockPrograms ==
    {d \o bd \o "." : d \in Decls, bd \in {x \in Bodies : "#" \notin CharsOf(x)}}

\* the types of the statements of the body of a program node, in order
StatementTypes(ast) ==
    [i \in 1..Len(ast.block.body.statements) |-> ast.block.body.statements[i].type]

\* C14: the tokens of a block followed by '.' parse: the parser returns a Program, and for
\* var x; begin x := 1; write(x) end. its body holds one Assign then one Write.
C14_ParsesBlockPeriod ==
    (source \in BlockPrograms /\ stage \notin {"edit", "lexed"}) =>
        /\ stage = "parsed"
        /\ source = MinimalSource => StatementTypes(artifacts.ast) = <<"AssignNode", "WriteNode">>

\* the characters of the operators and the punctuation
OperatorChars == UNION {CharsOf(k) : k \in DOMAIN SYMBOLS}

\* a character that is in no class of the lexer
UnknownChar(ch) == ~IsSpace(ch) /\ ~IsLetter(ch) /\ ~IsDigit(ch) /\ ch \notin OperatorChars

\* scanning reaches position i (from 1) of src: nothing before it stops the scan, neither
\* a character in no class nor a ':' that no '=' follows
Reaches(src, i) ==
    \A j \in 1..(i - 1) :
        /\ ~UnknownChar(SubSeq(src, j, j))
        /\ SubSeq(src, j, j) = ":" => (j + 1 < i /\ SubSeq(src, j + 1, j + 1) = "=")

NewlinesBefore(src, i) == Cardinality({j \in 1..(i - 1) : SubSeq(src, j, j) = "\n"})

\* C15: when scanning reaches a character that is in no class, tokenize() throws the
\* lexical error that names this character and its line, one more than the newlines
\* before it, and returns no tokens.
C15_UnknownCharacter ==
    \A i \in 1..Len(source) :
        (stage # "edit" /\ UnknownChar(SubSeq(source, i, i)) /\ Reaches(source, i)) =>
            /\ stage = "lexicalError"
            /\ artifacts.error = "Lexical Error at line "
                                 \o toString(1 + NewlinesBefore(source, i))
                                 \o ": Unknown character '" \o SubSeq(source, i, i) \o "'"
            /\ artifacts.tokens = <<>>

C15_Witness ==
    /\ source = "1\n#"
    /\ stage = "lexicalError"
    /\ artifacts.error = "Lexical Error at line 2: Unknown character '#'"

\* the body that compares with '#', and the same body with '<>'
HashBody == "begin x := 1;\nif x # 1 then write(x) end"
DiamondBody == "begin x := 1;\nif x <> 1 then write(x) end"

\* the token types of a token list, in order
SymsOf(tokens) == [i \in 1..Len(tokens) |-> tokens[i].sym]

\* C16: a source that spells not-equal '#' is not rejected: its tokens have the types of
\* the tokens of the same source with '<>', the '#' being a NEQ.
C16_HashIsNeq ==
    \A h \in Heads, d \in Decls, tl \in Tails :
        (source = h \o d \o HashBody \o tl /\ stage # "edit") =>
            /\ stage # "lexicalError"
            /\ "NEQ" \in {artifacts.tokens[i].sym : i \in 1..Len(artifacts.tokens)}
            /\ SymsOf(artifacts.tokens) = SymsOf(tokenize(h \o d \o DiamondBody \o tl).tokens)

-----------------------------------------------------------------------------
(* The passes of the optimizer on their own.  A pass is applied to a list   *)
(* of quadruples; to compare what the two lists compute, the code generated *)
(* from the list given is run on a new machine, and then the code generated *)
(* from the list returned.  Two Optimizer classes are in the repository,    *)
(* and the App imports one of them: optimizeLocalBasic, the elimination of  *)
(* common subexpressions and of dead code are passes of the first,          *)
(* optimizeLocal is a pass of the second.                                   *)

MaxConst == 2

\* the quadruples of a list of <<op, arg1, arg2, result>>, numbered from 0
RECURSIVE Quads(_)
Quads(l) ==
    IF l = <<>> THEN <<>>
    ELSE Only({ Append(Quads(SubSeq(l, 1, Len(l) - 1)),
                       Quadruple(Len(l) - 1, q[1], q[2], q[3], q[4]))
                : q \in {l[Len(l)]} })

\* what generate() puts around the quadruples of the main body
Framed(body) ==
    Quads(<<<<"GOTO", "proc_main", "", "">>, <<"LABEL", "", "", "proc_main">>>>
          \o body \o <<<<"END", "", "", "">>>>)

\* the quadruples of the main body of a framed list
BodyOf(tac) == SubSeq(tac, 3, Len(tac) - 1)

\* a := 3; b := a + 0; write(b)
IdentityQuads ==
    Framed(<<<<":=", "3", "", "a">>, <<"+", "a", "0", "b">>, <<"WRITE", "b", "", "">>>>)

\* what may stand between two quadruples with the same operator and arguments
Between ==
    {<<>>, <<<<":=", "5", "", "x">>>>, <<<<"+", "y", "1", "y">>>>, <<<<":=", "7", "", "T1">>>>}

\* x := vx; y := vy; T1 := x op y; ...; T2 := x op y; write(T2)
TwiceQuads(vx, vy, op, mid) ==
    Framed(<<<<":=", toString(vx), "", "x">>, <<":=", toString(vy), "", "y">>,
             <<op, "x", "y", "T1">>>>
           \o mid \o <<<<op, "x", "y", "T2">>, <<"WRITE", "T2", "", "">>>>)

\* T1 := c / d; write(T1)
DivQuads(c, d) ==
    Framed(<<<<"/", toString(c), toString(d), "T1">>, <<"WRITE", "T1", "", "">>>>)

\* the table of program q; var a, b, x, y; begin write(1) end.
QuadTable ==
    SymGenerate(ProgramNode("q", BlockNode(NullNode, VarDeclNode(<<"a", "b", "x", "y">>),
                                           <<>>, PlainBody)))

\* a variable whose name starts with T, assigned in the main body and written by a procedure
TotalSource ==
    "program t; var Total;\nprocedure show(); begin write(Total) end;\n"
    \o "begin Total := 5; call show() end."

PassInputs ==
    {[symTable |-> QuadTable, tac |-> tac] :
        tac \in {IdentityQuads}
                \cup {TwiceQuads(vx, vy, op, mid) : vx \in 0..MaxConst, vy \in 0..MaxConst,
                                                    op \in {"*", "-"}, mid \in Between}
                \cup {DivQuads(c, d) : c \in (-MaxConst)..MaxConst, d \in (-MaxConst)..MaxConst}}
    \cup {[symTable |-> compile(src).symTable, tac |-> compile(src).tac] : src \in {TotalSource}}

Passes == {"optimizeLocalBasic", "optimizeLocal", "eliminateCommonSubexpressions",
           "eliminateDeadCode"}

ApplyPass(pass, tac) ==
    CASE pass = "optimizeLocalBasic" -> optimizeLocalBasic(tac)
      [] pass = "optimizeLocal" -> optimizeLocal(tac)
      [] pass = "eliminateCommonSubexpressions" -> eliminateCommonSubexpressions(tac)
      [] pass = "eliminateDeadCode" -> eliminateDeadCode(tac)

PassInit ==
    /\ instructions = <<>>
    /\ stack = NoCells
    /\ stackLen = StackSize
    /\ filled = StackSize
    /\ p = 0 /\ b = 0 /\ t = 0
    /\ pc = "idle"
    /\ output = <<>>
    /\ error = ""
    /\ requests = 0 /\ responses = 0
    /\ steps = 0 /\ runs = 0
    /\ cur = NoSnap /\ prev = NoSnap
    /\ source = "" /\ feed = <<>>
    /\ artifacts \in {[NoArtifacts EXCEPT !.symTable = in.symTable, !.tac = in.tac]
                        : in \in PassInputs}
    /\ stage = "quads"
    /\ firstRun = NoOutcome
    /\ tacGen = TACState
    /\ quadHeap = NoHeap

\* one pass of an Optimizer on the quadruples
ApplyOne(pass) ==
    /\ stage = "quads"
    /\ artifacts' = [artifacts EXCEPT !.optimizedTac = ApplyPass(pass, artifacts.tac)]
    /\ stage' = pass
    /\ UNCHANGED <<vmVars, source, feed, firstRun, tacGen, quadHeap>>

\* the code generated from the quadruples given runs on a new machine
RunGiven ==
    /\ stage \in Passes
    /\ pc = "idle"
    /\ NewMachineRun(TargetGenerate(artifacts.symTable, artifacts.tac).instructions)
    /\ UNCHANGED appVars

\* then the code generated from the quadruples returned runs on a new machine
RunReturned ==
    /\ stage \in Passes
    /\ pc \in {"halted", "error"}
    /\ firstRun = NoOutcome
    /\ firstRun' = Outcome(pc, output, error)
    /\ NewMachineRun(TargetGenerate(artifacts.symTable, artifacts.optimizedTac).instructions)
    /\ UNCHANGED <<source, feed, artifacts, stage, tacGen, quadHeap>>

\* every list ends with END, whose OPR 0 0 ends the run: no run falls off its code
PassNext ==
    \/ \E pass \in Passes : ApplyOne(pass)
    \/ RunGiven
    \/ RunReturned
    \/ Step

SpecPass == PassInit /\ [][PassNext]_vars

\* the run of the code generated from the quadruples returned has ended
ReturnedRunEnded == stage \in Passes /\ firstRun # NoOutcome /\ pc \in {"halted", "error"}

\* C17: of a := 3; b := a + 0; write(b) the local pass makes the quadruple that defines b
\* the copy b := a, and the code generated from what it returns writes 3.
C17_AddZeroIsCopy ==
    (artifacts.tac = IdentityQuads /\ stage \in {"optimizeLocalBasic", "optimizeLocal"}) =>
        /\ BodyOf(artifacts.optimizedTac)[2] = Quadruple(3, ":=", "a", "", "b")
        /\ ReturnedRunEnded => output = <<MsgValue(3), MsgDone>>

\* no LABEL, jump, CALL or RET among the quadruples
StraightLine(quads) == \A i \in 1..Len(quads) : ~BlockBoundary(quads[i])

\* quads[j] computes what an earlier quadruple computed: the same operator and arguments
Repeats(quads, i, j) ==
    /\ i < j
    /\ quads[j].op \in CseOps
    /\ quads[i].op = quads[j].op
    /\ quads[i].arg1 = quads[j].arg1
    /\ quads[i].arg2 = quads[j].arg2

\* C18: in a block with no LABEL, jump, CALL or RET, the later of two quadruples with the
\* same operator and arguments becomes a copy of the result of the earlier one, and the
\* code generated from what the pass returns writes the values the code generated from
\* what it was given writes: the copy stores what the quadruple would have stored.
C18_CseKeepsValues ==
    (stage = "eliminateCommonSubexpressions" /\ StraightLine(BodyOf(artifacts.tac))) =>
        /\ \A i, j \in 1..Len(BodyOf(artifacts.tac)) :
              Repeats(BodyOf(artifacts.tac), i, j) =>
                  /\ BodyOf(artifacts.optimizedTac)[j].op = ":="
                  /\ \E k \in 1..(j - 1) :
                        /\ Repeats(BodyOf(artifacts.tac), k, j)
                        /\ BodyOf(artifacts.optimizedTac)[j].arg1 = BodyOf(artifacts.tac)[k].result
        /\ ReturnedRunEnded => Observed(pc, output) = Observed(firstRun.how, firstRun.out)

\* the result of the i-th quadruple is a variable the program declares
StoresVariable(rootTable, tac, i) ==
    /\ tac[i].result # ""
    /\ tac[i].op \notin {"LABEL", "GOTO", "JMP", "JZ", "CALL"}
    /\ findSymbol(rootTable, tac[i].result, ScopeAt(tac, i)).found
    /\ findSymbol(rootTable, tac[i].result, ScopeAt(tac, i)).entry.kind = "variable"

\* C19: the elimination of dead code returns every quadruple whose result is a variable
\* of the program, whatever its name: it drops temporaries only.
C19_VariablesKept ==
    stage = "eliminateDeadCode" =>
        \A i \in 1..Len(artifacts.tac) :
            StoresVariable(artifacts.symTable, artifacts.tac, i) =>
                \E k \in 1..Len(artifacts.optimizedTac) :
                    artifacts.optimizedTac[k] = artifacts.tac[i]

\* the run of the code generated from the quadruples given has ended
GivenRunEnded == stage \in Passes /\ runs = 1 /\ firstRun = NoOutcome /\ pc \in {"halted", "error"}

\* the greatest integer that is at most c / d, for d # 0
FloorOf(c, d) ==
    CHOOSE k \in (-(Abs(c) + 1))..(Abs(c) + 1) :
        IF d > 0 THEN k * d <= c /\ c < (k + 1) * d
        ELSE k * d >= c /\ c > (k + 1) * d

\* C20: the local pass folds T1 := c / d with d # 0 to T1 := floor(c / d), the value that
\* OPR 5 computes and the machine writes when the unfolded code runs; it returns the
\* quadruple as it is when d = 0, and the code generated from it ends by the division by zero.
C20_DivisionFolding ==
    \A c, d \in (-MaxConst)..MaxConst :
        (artifacts.tac = DivQuads(c, d) /\ stage \in {"optimizeLocalBasic", "optimizeLocal"}) =>
            IF d # 0
            THEN /\ BodyOf(artifacts.optimizedTac)[1]
                      = Quadruple(2, ":=", toString(FloorOf(c, d)), "", "T1")
                 /\ (GivenRunEnded \/ ReturnedRunEnded) =>
                        output = <<MsgValue(FloorOf(c, d)), MsgDone>>
            ELSE /\ BodyOf(artifacts.optimizedTac)[1] = BodyOf(artifacts.tac)[1]
                 /\ (GivenRunEnded \/ ReturnedRunEnded) =>
                        (pc = "error" /\ error = ErrDivZero /\ output = <<>>)

C20_Witness ==
    /\ stage = "optimizeLocalBasic"
    /\ artifacts.tac = DivQuads(-1, 2)
    /\ artifacts.optimizedTac[3] = Quadruple(2, ":=", "-1", "", "T1")
    /\ ReturnedRunEnded
    /\ firstRun.out = <<MsgValue(-1), MsgDone>>
    /\ output = <<MsgValue(-1), MsgDone>>

-----------------------------------------------------------------------------
(* Claims about the errors of the parser *)

\* the names of the token kinds
TokenKinds ==
    {"IDENT", "NUMBER"} \cup {KEYWORDS[k] : k \in DOMAIN KEYWORDS}
                        \cup {SYMBOLS[k] : k \in DOMAIN SYMBOLS}

\* the syntax error that says which kind was expected at the token after the first k
\* tokens, which kind that token has and on which line it is ('end' and EOF past the
\* last token)
SyntaxErrorAt(tokens, k, kind) ==
    "Syntax Error at line "
       \o (IF k < Len(tokens) THEN toString(tokens[k + 1].line) ELSE "end")
       \o ": Expected " \o kind \o " but found "
       \o (IF k < Len(tokens) THEN tokens[k + 1].sym ELSE "EOF")

\* C21: whenever the parser fails, its error says the kind it expected, the kind it
\* found and the line of the token it found, at every place where it can fail.
C21_SyntaxErrorCarries ==
    stage = "syntaxError" =>
        \E k \in 0..Len(artifacts.tokens), kind \in TokenKinds :
            artifacts.error = SyntaxErrorAt(artifacts.tokens, k, kind)

-----------------------------------------------------------------------------
(* An Optimizer and the array of quadruples it is given: optimize is called *)
(* on the array, and once more on the same array.                           *)

MaxCalls == 2

\* the quadruple lists of the passes, and those of the programs of the App
OptimizerInputs ==
    {in.tac : in \in PassInputs}
        \cup {compile(src).tac : src \in {x \in Sources \ {RunOffSource} : compile(x).ok}}

OptimizerInit ==
    /\ instructions = <<>>
    /\ stack = NoCells
    /\ stackLen = StackSize
    /\ filled = StackSize
    /\ p = 0 /\ b = 0 /\ t = 0
    /\ pc = "idle"
    /\ output = <<>>
    /\ error = ""
    /\ requests = 0 /\ responses = 0
    /\ steps = 0 /\ runs = 0
    /\ cur = NoSnap /\ prev = NoSnap
    /\ source = "" /\ feed = <<>>
    /\ artifacts \in {[NoArtifacts EXCEPT !.tac = tac] : tac \in OptimizerInputs}
    /\ stage = "new"
    /\ firstRun = NoOutcome
    /\ tacGen = TACState
    /\ quadHeap = [NoHeap EXCEPT !.objects = artifacts.tac,
                                 !.given = [i \in 1..Len(artifacts.tac) |-> i]]

\* what a call that made the objects and the array res leaves
Called(res) ==
    /\ quadHeap' = [quadHeap EXCEPT !.objects = res.objects, !.returned = res.refs,
                                    !.calls = quadHeap.calls + 1,
                                    !.first = IF quadHeap.calls = 0
                                              THEN Deref(res.objects, res.refs)
                                              ELSE quadHeap.first]
    /\ artifacts' = [artifacts EXCEPT !.optimizedTac = Deref(res.objects, res.refs)]

\* optimizer.optimize(tac), the Optimizer being the one with the elimination passes
Optimize ==
    /\ stage \in {"new", "optimizer"}
    /\ quadHeap.calls < MaxCalls
    /\ \E res \in {OptimizeObjects(quadHeap.objects, quadHeap.given)} : Called(res)
    /\ stage' = "optimizer"
    /\ UNCHANGED <<vmVars, source, feed, firstRun, tacGen>>

\* optimizer.optimize(tac), the Optimizer being the one that moves loop-invariant code
OptimizeMotion ==
    /\ stage \in {"new", "motion"}
    /\ quadHeap.calls < MaxCalls
    /\ \E res \in {OptimizeMotionObjects(quadHeap.objects, quadHeap.given)} : Called(res)
    /\ stage' = "motion"
    /\ UNCHANGED <<vmVars, source, feed, firstRun, tacGen>>

OptimizerNext == Optimize \/ OptimizeMotion

SpecOptimizer == OptimizerInit /\ [][OptimizerNext]_vars

\* C22: optimize leaves the quadruples of the array it is given as they were, every
\* quadruple it returns has its place as id, and a later call on the same Optimizer and
\* array returns what the first call returned, which is what a new Optimizer returns.
C22_OptimizerPure ==
    quadHeap.calls > 0 =>
        /\ Deref(quadHeap.objects, quadHeap.given) = artifacts.tac
        /\ \A k \in 1..Len(quadHeap.returned) : quadHeap.objects[quadHeap.returned[k]].id = k - 1
        /\ Deref(quadHeap.objects, quadHeap.returned) = quadHeap.first
        /\ quadHeap.first = IF stage = "optimizer" THEN optimize(artifacts.tac)
                            ELSE optimizeMotion(artifacts.tac)

C22_Witness ==
    /\ stage = "optimizer"
    /\ quadHeap.calls = 2
    /\ Len(quadHeap.returned) < Len(quadHeap.given)
    /\ \E k \in 1..Len(quadHeap.returned) :
          quadHeap.objects[quadHeap.returned[k]].op # artifacts.tac[k].op

-----------------------------------------------------------------------------
(* The output stream of a run (vm.ts 96-107, 144-152).                     *)

\* the lines a step adds to the output
LinesAdded == SubSeq(output', Len(output) + 1, Len(output'))

\* the completion line, in a step that ends the run
DoneLine == IF pc' = "halted" THEN <<MsgDone>> ELSE <<>>

\* C23, step part: while a run goes on the output only grows at its end; a step that
\* executes WRT adds one line with the value it popped, the settlement of a read adds one
\* line with the value supplied (the value OPR 16 pushed), a request adds the prompt, every
\* other step adds nothing, and the step that ends the run adds the completion line last.
C23_LineRule ==
    (pc \in {"running", "awaiting"} /\ pc' # "error") =>
        /\ Len(output') >= Len(output)
        /\ SubSeq(output', 1, Len(output)) = output
        /\ CASE steps' = steps + 1 /\ cur'.ins.f = "WRT" ->
                    LinesAdded = <<MsgValue(Rd(stack', filled', t'))>> \o DoneLine
             [] requests' = requests + 1 -> LinesAdded = <<MsgPrompt>>
             [] responses' = responses + 1 ->
                    \E val \in 0..MaxInput :
                        /\ LinesAdded = <<MsgValue(val)>> \o DoneLine
                        /\ (cur.ins.f = "OPR" /\ t \in 0..(stackLen - 1))
                               => Rd(stack', filled', t) = val
             [] OTHER -> LinesAdded = DoneLine

\* C23, state part: the completion line is in the output of a run exactly when the run
\* has halted, and then once, as its last line.
C23_DoneOnce ==
    /\ pc = "halted" =>
          /\ output # <<>>
          /\ output[Len(output)] = MsgDone
          /\ \A k \in 1..(Len(output) - 1) : output[k] # MsgDone
    /\ pc \in {"running", "awaiting", "error"} =>
          \A k \in 1..Len(output) : output[k] # MsgDone

\* C23: in a run that halts normally every executed WRT emits one line with the popped
\* value, every completed read emits one echo of the value supplied, in execution order,
\* and the completion line is emitted exactly once, after all of them.
C23_OutputOrdering == [](C23_DoneOnce) /\ [][C23_LineRule]_vars

\* a halted run in which two reads were completed and WRT was executed as well
C23_Witness ==
    /\ pc = "halted"
    /\ responses = 2
    /\ Len(SelectSeq(output, LAMBDA m : m.text = "value")) > 2
    /\ Len(SelectSeq(output, LAMBDA m : m.text = "prompt")) = 2

-----------------------------------------------------------------------------
(* The generated code of programs with nested procedures, with names the   *)
(* generators use themselves, with many variables and with assignments to  *)
(* constants and procedures: compiled and run as the App does.             *)

\* a procedure that declares a procedure before its body
NestedSource ==
    "program n; var g;\nprocedure outer(); var a;\n"
    \o "procedure inner(); begin g := g + 1 end;\n"
    \o "begin a := 2; call inner(); write(a + g) end;\n"
    \o "begin g := 5; call outer(); write(g) end."

\* a variable whose name starts with T
TempNameSource == "program t; var T1, x;\nbegin T1 := 5; x := T1; write(x) end."

\* a procedure named main
MainProcSource == "program m;\nprocedure main(); begin write(1) end;\nbegin call main(); write(2) end."

\* twenty variables: the last one has the offset 22, where the temporary T2 is kept
ManyVarsSource ==
    "program v; var a, b, c, d, e, f, g, h, i, j, k, l, m, n, o, p, q, r, s, u;\n"
    \o "begin u := 7; a := 1; write(u) end."

\* assignments to a constant and to a procedure, and a read into a constant
HeaderSource ==
    "program k; const c := 1; var x;\nprocedure p(); begin c := 9; write(x) end;\n"
    \o "begin x := 4; call p(); read(c); write(x) end."

\* RunOffSource with a procedure q that nothing calls, and 3, the place of the second
\* instruction of q, stored on the return address of p
StrayReturnSource ==
    "program f; var x;\nprocedure q(); begin write(7) end;\n"
    \o "procedure p(); begin x := 3 end;\nbegin\n"
    \o PopsBlock \o PopsBlock \o PopsBlock \o PopsBlock \o PopsBlock
    \o PopsBlock \o PopsBlock \o PopsBlock \o PopsBlock \o PopsBlock
    \o "x:=y; x:=y; x:=y; x:=y; x:=y; x:=y;\ncall p; write(x) end."

TargetSources ==
    {NestedSource, TempNameSource, MainProcSource, ManyVarsSource, HeaderSource,
     StrayReturnSource, ReadSource, LoopSource}

TargetInit ==
    /\ instructions = <<>>
    /\ stack = NoCells
    /\ stackLen = StackSize
    /\ filled = StackSize
    /\ p = 0 /\ b = 0 /\ t = 0
    /\ pc = "idle"
    /\ output = <<>>
    /\ error = ""
    /\ requests = 0 /\ responses = 0
    /\ steps = 0 /\ runs = 0
    /\ cur = NoSnap /\ prev = NoSnap
    /\ source \in TargetSources
    /\ feed \in Feeds
    /\ artifacts = NoArtifacts
    /\ stage = "edit"
    /\ firstRun = NoOutcome
    /\ tacGen = TACState
    /\ quadHeap = NoHeap

\* the runs of these programs end by an OPR 0 that leaves p at 0, by an error or at the
\* step limit: the loop guard never fails in them
TargetNext ==
    \/ Compile
    \/ AppRun
    \/ Step
    \/ Request
    \/ Type

SpecTarget == TargetInit /\ [][TargetNext]_vars

\* the procedure in whose block the quadruple at k stands (the table the generator of the
\* quadruples was in when it emitted it): the last LABEL proc_X before k whose RET X is
\* at k or after it, Global if there is none
OwnerAt(tac, k) ==
    LET name(i) == RemoveFirst(tac[i].result, "proc_")
        open == {i \in 1..(k - 1) :
                    /\ tac[i].op = "LABEL" /\ startsWith(tac[i].result, "proc_")
                    /\ \E j \in k..Len(tac) : tac[j].op = "RET" /\ tac[j].arg1 = name(i)
                    /\ \A j \in (i + 1)..(k - 1) : ~(tac[j].op = "RET" /\ tac[j].arg1 = name(i))}
    IN  IF open = {} THEN "Global" ELSE name(CHOOSE i \in open : \A j \in open : j <= i)

\* the instructions pass 1 emits for a quadruple when currentProc is scope
EmittedFor(rootTable, quad, scope) ==
    GenQuad([TargetState EXCEPT !.currentProc = scope], rootTable, quad).instructions

\* C24: the level difference of every LOD, STO and CAL emitted for a quadruple in the body
\* of a procedure P is the number of scopes between P's scope and the scope that declares
\* the name: the instructions are those the quadruple gives when resolved from P's scope.
C24_LevelsExact ==
    stage = "compiled" =>
        \A k \in 1..Len(artifacts.tac) :
            artifacts.tac[k].op # "LABEL" =>
                EmittedFor(artifacts.symTable, artifacts.tac[k], ScopeAt(artifacts.tac, k))
                    = EmittedFor(artifacts.symTable, artifacts.tac[k], OwnerAt(artifacts.tac, k))

\* the number of instructions pass 1 has emitted after the quadruple at k
EmittedUpTo(rootTable, tac, k) == Len(Pass1(TargetState, rootTable, tac, 1, k).instructions)

\* the procedures of the generated code: the place of the INT emitted at LABEL proc_X and
\* the place of the OPR 0 emitted for the first RET X after it
ProcBodies(rootTable, tac) ==
    { [name |-> tac[i].result,
       first |-> EmittedUpTo(rootTable, tac, i - 1),
       last |-> EmittedUpTo(rootTable, tac,
                            CHOOSE j \in (i + 1)..Len(tac) :
                                /\ tac[j].op = "RET"
                                /\ tac[j].arg1 = RemoveFirst(tac[i].result, "proc_")
                                /\ \A h \in (i + 1)..(j - 1) :
                                      ~(tac[h].op = "RET" /\ tac[h].arg1 = tac[j].arg1)) - 1]
      : i \in {i \in 1..Len(tac) :
                  /\ tac[i].op = "LABEL" /\ startsWith(tac[i].result, "proc_")
                  /\ \E j \in (i + 1)..Len(tac) :
                        tac[j].op = "RET" /\ tac[j].arg1 = RemoveFirst(tac[i].result, "proc_")} }

\* the innermost of the bodies that holds the instruction at k
BodyAt(bodies, k) ==
    LET around == {r \in bodies : r.first <= k /\ k <= r.last}
    IN  CHOOSE r \in around : \A q \in around : q.first <= r.first

\* C25: an instruction between a procedure's entry label and its RET is executed only
\* after a CAL to that label: the instruction executed before it is the CAL itself, an
\* instruction of the same body other than its RET, or the OPR 0 of a callee returning
\* behind a CAL of this body.
C25_BodiesByCall ==
    (/\ stage = "original" /\ cur.valid
     /\ cur.p \in 1..(artifacts.labelMap["proc_main"] - 1)) =>
        \A bodies \in {ProcBodies(artifacts.symTable, artifacts.tac)} :
            (\E r \in bodies : r.first <= cur.p /\ cur.p <= r.last) =>
                /\ prev.valid
                /\ \A r \in {BodyAt(bodies, cur.p)} :
                      \/ /\ prev.ins.f = "CAL" /\ prev.ins.a = r.first /\ cur.p = r.first
                      \/ /\ \E q \in bodies : q.first <= prev.p /\ prev.p <= q.last
                         /\ BodyAt(bodies, prev.p) = r
                         /\ ~(prev.ins.f = "OPR" /\ prev.ins.a = 0)
                         /\ prev.ins.f # "CAL"
                      \/ /\ prev.ins.f = "OPR" /\ prev.ins.a = 0
                         /\ instructions[cur.p].f = "CAL"
                         /\ BodyAt(bodies, cur.p - 1) = r

\* C26: in one procedure, the STO emitted for a name that a quadruple writes and the LOD
\* emitted for the same name where a later quadruple reads it have the same level
\* difference and the same offset.
C26_SameCell ==
    stage = "compiled" =>
        \A i, j \in 1..Len(artifacts.tac) :
            (/\ i < j
             /\ OwnerAt(artifacts.tac, i) = OwnerAt(artifacts.tac, j)
             /\ artifacts.tac[i].result # ""
             /\ artifacts.tac[i].result \in StoresOf(artifacts.tac[i])
             /\ artifacts.tac[i].result \in OperandsOf(artifacts.tac[j])) =>
                \A sto \in {genStore([TargetState EXCEPT
                                         !.currentProc = ScopeAt(artifacts.tac, i)],
                                     artifacts.symTable, artifacts.tac[i].result).instructions},
                   lod \in {genOperand([TargetState EXCEPT
                                           !.currentProc = ScopeAt(artifacts.tac, j)],
                                       artifacts.symTable, artifacts.tac[i].result).instructions} :
                    (sto # <<>> /\ lod # <<>>) =>
                        /\ lod[1].f = "LOD"
                        /\ lod[1].l = sto[1].l
                        /\ lod[1].a = sto[1].a

\* a name of the form T<n>, as newTemp makes them
TempName(name) == startsWith(name, "T") /\ Len(name) > 1 /\ parseInt(substring(name, 1)) # NaN

\* C27: in the generated quadruples no two LABEL quadruples have the same label, and
\* every temporary T<n> is the result of exactly one quadruple.
C27_UniqueNames ==
    stage = "compiled" =>
        /\ \A i, j \in 1..Len(artifacts.tac) :
              (/\ i # j
               /\ artifacts.tac[i].op = "LABEL"
               /\ artifacts.tac[j].op = "LABEL") => artifacts.tac[i].result # artifacts.tac[j].result
        /\ \A i, j \in 1..Len(artifacts.tac) :
              (/\ i # j
               /\ artifacts.tac[i].op # "LABEL"
               /\ artifacts.tac[j].op # "LABEL"
               /\ TempName(artifacts.tac[i].result)) => artifacts.tac[i].result # artifacts.tac[j].result

-----------------------------------------------------------------------------
(* optimizeLoops of the Optimizer that moves loop-invariant code, one step *)
(* per iteration of its loop over the loops it found.  The quadruples of   *)
(* the input carry their place as id, so that each is found again.         *)

MaxBody == 2      \* quadruples in the body of a loop

\* the quadruples a loop body is made of: an operation on names the loop does not
\* assign, one on the counter, the assignment of the counter, and an operation whose
\* result is a variable
BodyQuads ==
    {Quadruple(0, "+", "a", "1", "T1"), Quadruple(0, "-", "i", "1", "T2"),
     Quadruple(0, ":=", "T2", "", "i"), Quadruple(0, "*", "a", "2", "x")}

LoopBodies == ListsUpTo(BodyQuads, MaxBody)

\* a while loop as the generator of the quadruples writes it, its labels numbered n, n + 1
WhileLoop(n, body) ==
    << Quadruple(0, "LABEL", "", "", "L" \o toString(n)),
       Quadruple(0, "<", "0", "i", "T0"),
       Quadruple(0, "JZ", "T0", "", "L" \o toString(n + 1)) >>
    \o body
    \o << Quadruple(0, "JMP", "", "", "L" \o toString(n)),
          Quadruple(0, "LABEL", "", "", "L" \o toString(n + 1)) >>

\* the main program with the quadruples body
InMain(body) ==
    << Quadruple(0, "GOTO", "proc_main", "", ""), Quadruple(0, "LABEL", "", "", "proc_main") >>
    \o body \o << Quadruple(0, "END", "", "", "") >>

\* one loop, two loops one after the other, and a loop in a loop
MotionInputs ==
    {Positioned(InMain(WhileLoop(1, body))) : body \in LoopBodies}
    \cup {Positioned(InMain(WhileLoop(1, first) \o WhileLoop(3, second)))
          : first \in LoopBodies, second \in LoopBodies}
    \cup {Positioned(InMain(WhileLoop(1, before \o WhileLoop(3, inner) \o after)))
          : inner \in LoopBodies, before \in ListsUpTo(BodyQuads, 1),
            after \in ListsUpTo(BodyQuads, 1)}

MotionInit ==
    /\ instructions = <<>>
    /\ stack = NoCells
    /\ stackLen = StackSize
    /\ filled = StackSize
    /\ p = 0 /\ b = 0 /\ t = 0
    /\ pc = "idle"
    /\ output = <<>>
    /\ error = ""
    /\ requests = 0 /\ responses = 0
    /\ steps = 0 /\ runs = 0
    /\ cur = NoSnap /\ prev = NoSnap
    /\ source = "" /\ feed = <<>>
    /\ \E tac \in MotionInputs :
          artifacts = [NoArtifacts EXCEPT !.tac = tac, !.optimizedTac = tac]
    /\ stage = "loops"
    /\ firstRun = NoOutcome
    /\ tacGen = TACState
    /\ quadHeap = NoHeap

\* one iteration of for (const loop of loops)
HoistNext ==
    /\ stage = "loops"
    /\ steps < Len(LoopsOf(artifacts.tac))
    /\ artifacts' = [artifacts EXCEPT
                        !.optimizedTac = HoistLoop(artifacts.optimizedTac,
                                                   LoopsOf(artifacts.tac)[steps + 1])]
    /\ steps' = steps + 1
    /\ UNCHANGED <<instructions, stack, stackLen, filled, p, b, t, pc, output, error,
                   requests, responses, runs, cur, prev>>
    /\ UNCHANGED <<source, feed, stage, firstRun, tacGen, quadHeap>>

\* return optimizedTAC
ReturnMoved ==
    /\ stage = "loops"
    /\ steps = Len(LoopsOf(artifacts.tac))
    /\ stage' = "moved"
    /\ UNCHANGED <<vmVars, source, feed, artifacts, firstRun, tacGen, quadHeap>>

MotionNext == HoistNext \/ ReturnMoved

SpecMotion == MotionInit /\ [][MotionNext]_vars

\* the place in code of the quadruple that stood at place id of the input
PlaceIn(code, id) == CHOOSE k \in 1..Len(code) : code[k].id = id

\* the quadruple of place id was moved out of loop: it stood between the LABEL and the
\* JMP of loop in the input and does not in code
MovedOutOf(code, loop, id) ==
    /\ loop.start < id /\ id < loop.end
    /\ ~(PlaceIn(code, loop.start) < PlaceIn(code, id)
         /\ PlaceIn(code, id) < PlaceIn(code, loop.end))

\* C28: what optimizeLoops returns is a permutation of its input, the quadruples it did
\* not move are in the order of the input, and every quadruple it moved stands before the
\* LABEL of a loop it was taken from, with only quadruples moved out of that loop between
\* it and the LABEL.
C28_OnlyReorders ==
    stage = "moved" =>
        \A in \in {artifacts.tac}, out \in {artifacts.optimizedTac},
           loops \in {LoopsOf(artifacts.tac)} :
            /\ Len(out) = Len(in)
            /\ {out[k].id : k \in 1..Len(out)} = 1..Len(in)
            /\ \A k \in 1..Len(out) : out[k] = in[out[k].id]
            /\ \A i, j \in 1..Len(in) :
                  (/\ i < j
                   /\ \A n \in 1..Len(loops) : ~MovedOutOf(out, loops[n], i)
                   /\ \A n \in 1..Len(loops) : ~MovedOutOf(out, loops[n], j))
                      => PlaceIn(out, i) < PlaceIn(out, j)
            /\ \A i \in 1..Len(in) :
                  (\E n \in 1..Len(loops) : MovedOutOf(out, loops[n], i)) =>
                      \E n \in 1..Len(loops) :
                          /\ MovedOutOf(out, loops[n], i)
                          /\ PlaceIn(out, i) < PlaceIn(out, loops[n].start)
                          /\ \A k \in (PlaceIn(out, i) + 1)..(PlaceIn(out, loops[n].start) - 1) :
                                MovedOutOf(out, loops[n], out[k].id)

\* a loop in a loop: a quadruple moved out of both, one moved out of the inner loop only
C28_Witness ==
    /\ stage = "moved"
    /\ Len(LoopsOf(artifacts.tac)) = 2
    /\ \E i, j \in 1..Len(artifacts.tac) :
          /\ MovedOutOf(artifacts.optimizedTac, LoopsOf(artifacts.tac)[1], i)
          /\ MovedOutOf(artifacts.optimizedTac, LoopsOf(artifacts.tac)[2], i)
          /\ MovedOutOf(artifacts.optimizedTac, LoopsOf(artifacts.tac)[1], j)
          /\ ~MovedOutOf(artifacts.optimizedTac, LoopsOf(artifacts.tac)[2], j)

\* the names of a quadruple that pass 1 keeps in a temporary slot: an operand that starts
\* with T and is no number, a result that starts with T and is not declared
TempsOf(rootTable, q, scope) ==
    {arg \in OperandsOf(q) : arg # "" /\ parseFloat(arg) = NaN /\ startsWith(arg, "T")}
    \cup {res \in StoresOf(q) : /\ res # "" /\ startsWith(res, "T")
                                /\ ~findSymbol(rootTable, res, scope).found}

\* the cells INT takes for the frame of scope
FrameCells(rootTable, scope) ==
    (IF scope = "Global" THEN rootTable.varOffset
     ELSE IF procMap(rootTable, scope).found THEN procMap(rootTable, scope).entry.size
     ELSE 3) + 100

\* C29: the slot 20 + n of every temporary T<n> lies inside the frame INT made and is not
\* the slot of a variable declared in the procedure.
C29_TempSlotsFree ==
    stage = "compiled" =>
        \A k \in 1..Len(artifacts.tac) :
            \A scope \in {ScopeAt(artifacts.tac, k)} :
                \A name \in TempsOf(artifacts.symTable, artifacts.tac[k], scope) :
                    \A slot \in {JsAdd(20, parseInt(substring(name, 1)))},
                       scopes \in {getScopeStack(artifacts.symTable, scope, <<>>)} :
                        /\ slot < FrameCells(artifacts.symTable, scope)
                        /\ scopes # <<>> =>
                              \A e \in 1..Len(scopes[Len(scopes)].entries) :
                                  scopes[Len(scopes)].entries[e].kind = "variable"
                                      => scopes[Len(scopes)].entries[e].addr # slot

\* C30: no STO of the generated code has an offset among 0, 1 and 2, the cells of the
\* static link, the dynamic link and the return address of a frame.
C30_HeaderUntouched ==
    stage = "compiled" =>
        \A i \in 1..Len(artifacts.instructions) :
            artifacts.instructions[i].f = "STO" => artifacts.instructions[i].a \notin 0..2

=============================================================================
